---- MODULE Spec2Model ----
(***************************************************************************)
(* Model of the multi-provider Telegram AI bot: the provider adapters and  *)
(* registry (app/ai_services.py), the per-user credential and preference   *)
(* store (app/user_tokens.py) and the handlers with their setup state      *)
(* machine, conversation store and message router (app/handlers.py).       *)
(*                                                                         *)
(* Representation.  Identifiers (provider ids, model names, roles) are     *)
(* strings and Python's None is the string None for them.  Texts that the  *)
(* code inspects (credentials, message texts, environment values) are      *)
(* sequences of one-character strings, "" is << >> and Python's None is    *)
(* NoneTok for them.  Python dicts are functions whose DOMAIN is the set   *)
(* of keys present.                                                        *)
(*                                                                         *)
(* Scheduling.  Handlers run as cooperative tasks.  The awaited provider   *)
(* call inside generate_response is the suspension point at which other    *)
(* handlers interleave; the calls to the chat transport (answer, edit_text,*)
(* delete, send_chat_action) and to the in-memory FSM storage are taken    *)
(* as atomic with the handler step that issues them.                       *)
(***************************************************************************)
EXTENDS Integers, Sequences, FiniteSets, TLC

VARIABLES
    environ,             \* os.environ, fixed for the life of the process
    user_tokens,         \* UserTokenManager._user_tokens
    user_preferences,    \* UserTokenManager._user_preferences
    user_conversations,  \* handlers.user_conversations
    fsm_state,           \* FSMContext state of each user
    fsm_data,            \* FSMContext data of each user (selected_provider)
    session,             \* each user's setup session: what it started from and chose
    keyboards,           \* inline keyboards currently displayed to each user
    calls,               \* handle_ai_message tasks suspended in generate_response
    sent,                \* number of chat texts each user has sent to the router
    replied,             \* the reply the message router sent last, per user
    routed,              \* the turns the router appended to each user's transcript
    ledger,              \* per chat text of each user: provider calls made, replies sent
    result,              \* what the last direct call of generate_response gave
    api,                 \* the last direct call of a method of the store or registry
    unhandled,           \* the exceptions handlers have let through to the dispatcher
    run,                 \* how far each user is through an uninterrupted setup run
    budget               \* prompts, credential texts and chat texts left to the run

vars == <<environ, user_tokens, user_preferences, user_conversations, fsm_state,
          fsm_data, session, keyboards, calls, sent, replied, routed, ledger, result, api,
          unhandled, run, budget>>

----------------------------------------------------------------------------
(* Bounds *)

\* chat texts the first user sends in a run of the chat specification
MaxMsgs == 6
\* chat texts the second user sends in a run of the chat specification
MaxOtherMsgs == 1
\* chat texts each user sends in a run of the full specification
MaxSetupMsgs == 1
\* generate calls of one user in flight at the same time
MaxInflight == 2
\* the same in the chat specification, where a user's texts are handled in turn
MaxChatInflight == 1
\* commands and buttons that open a new prompt message, per run
MaxPrompts == 2
\* credential texts submitted, per run
MaxTokenEntries == 2
\* the buttons of a model keyboard a user presses: the first ones
MaxModelButtons == 2

Users == {"u1", "u2"}

----------------------------------------------------------------------------
(* Values *)

None == "None"
NoneTok == <<"None">>
EmptyStr == << >>

\* mutant of Truthy: only None is falsy, the empty string counts as a value
TruthyNotNone(x) == x # NoneTok

\* bool(x) of an optional text
Truthy(x) == x # NoneTok /\ x # EmptyStr

\* bool(x) of an optional identifier
TruthyId(x) == x # None /\ x # ""

Max(a, b) == IF a > b THEN a ELSE b

Whitespace == {" ", "\n", "\t"}

RECURSIVE LStrip(_)
LStrip(s) == IF s # << >> /\ Head(s) \in Whitespace THEN LStrip(Tail(s)) ELSE s

RECURSIVE RStrip(_)
RStrip(s) ==
    IF s # << >> /\ s[Len(s)] \in Whitespace
    THEN RStrip(SubSeq(s, 1, Len(s) - 1))
    ELSE s

\* str.strip()
Strip(s) == RStrip(LStrip(s))

\* mutant of Lower: the id is looked up as written
LowerNot(s) == s

\* str.lower() on the provider ids that occur
Lower(s) ==
    CASE s = "ChatGPT" -> "chatgpt"
      [] s = "CHATGPT" -> "chatgpt"
      [] s = "Gemini" -> "gemini"
      [] s = "CLAUDE" -> "claude"
      [] s = "Grok" -> "grok"
      [] s = "Custom" -> "custom"
      [] OTHER -> s

----------------------------------------------------------------------------
(* app/ai_services.py: provider adapters *)

Providers == {"chatgpt", "gemini", "claude", "grok", "custom"}

\* the environment variable holding each provider's credential
KeyVar(p) ==
    CASE p = "chatgpt" -> "OPENAI_API_KEY"
      [] p = "gemini" -> "GEMINI_API_KEY"
      [] p = "claude" -> "ANTHROPIC_API_KEY"
      [] p = "grok" -> "XAI_API_KEY"
      [] p = "custom" -> "CUSTOM_LLM_API_KEY"

DefaultModel(p) ==
    CASE p = "chatgpt" -> "gpt-4o-mini"
      [] p = "gemini" -> "gemini-1.5-flash"
      [] p = "claude" -> "claude-3-5-sonnet-20241022"
      [] p = "grok" -> "grok-beta"
      [] p = "custom" -> "custom-model"

DefaultBaseUrl == <<"http://localhost:11434/v1/chat/completions">>

\* os.getenv(name, default)
GetEnv(name, default) == IF name \in DOMAIN environ THEN environ[name] ELSE default

\* a or b on optional texts
OrElse(a, b) == IF Truthy(a) THEN a ELSE b

\* the service classes' __init__ (api_key and base_url parameters left unset)
NewService(p, model) ==
    [kind |-> p,
     api_key |-> OrElse(NoneTok, GetEnv(KeyVar(p), NoneTok)),
     model |-> model,
     base_url |-> IF p = "custom"
                  THEN OrElse(NoneTok, GetEnv("CUSTOM_LLM_BASE_URL", DefaultBaseUrl))
                  ELSE NoneTok]

NoService == [kind |-> None, api_key |-> NoneTok, model |-> None, base_url |-> NoneTok]

\* mutant of get_effective_key: the instance key takes precedence
GetEffectiveKeyEnvFirst(svc, user_token) == OrElse(svc.api_key, user_token)

\* AIService.get_effective_key
GetEffectiveKey(svc, user_token) == OrElse(user_token, svc.api_key)

\* is_available of the five service classes
IsAvailable(svc, user_token) ==
    IF svc.kind = "custom"
    THEN Truthy(svc.base_url)
    ELSE Truthy(GetEffectiveKey(svc, user_token))

\* contents of conversation turns and of replies
Content(tag, n, p, code) == [tag |-> tag, n |-> n, p |-> p, code |-> code]

\* the n-th chat text of a user
Text(n) == Content("text", n, "", 0)

\* the text a provider generates for prompt n
Reply(n) == Content("reply", n, "", 0)

\* "Invalid API key. Please update your token with /settoken."
InvalidKeyMsg == Content("invalid_key", 0, "", 0)

\* "<kind> is not configured. ..."
NotConfiguredMsg(p) == Content("service_not_configured", 0, p, 0)

\* "<kind> API error: <status>"
ApiErrorMsg(p, status) == Content("api_error", 0, p, status)

\* "Error: <exception text>"
ErrorMsg(exc) == Content("error", 0, exc, 0)

\* "Gemini error: <exception text>"
GeminiErrorMsg(exc) == Content("gemini_error", 0, exc, 0)

\* str(data) of a payload of unknown shape
DumpMsg(n) == Content("dump", n, "", 0)

Turn(role, content) == [role |-> role, content |-> content]

UserTurn(n) == Turn("user", Text(n))

\* what the awaited provider call can do: fail in the network, answer with a
\* status, and on 200 carry a body of one of the shapes
HttpStatuses == {200, 401, 500}
BodyShapes == {"choices", "content", "response", "other", "invalid_json"}
Outcomes ==
    {[err |-> "network", status |-> 0, shape |-> "other"]}
    \cup {[err |-> "none", status |-> st, shape |-> "other"] : st \in HttpStatuses \ {200}}
    \cup {[err |-> "none", status |-> 200, shape |-> sh] : sh \in BodyShapes}

\* the kinds whose generate_response sends the caller's list itself
AliasingKinds == {"chatgpt", "grok", "custom"}

\* the caller's list after the synchronous part of generate_response:
\* "messages = conversation_history or []; messages.append(...)" extends the
\* caller's list when it is not empty; Claude and Gemini build their own
HistoryAfterCall(kind, history, n) ==
    IF kind \in AliasingKinds /\ history # << >>
    THEN history \o <<UserTurn(n)>>
    ELSE history

LastN(s, k) == SubSeq(s, Max(1, Len(s) - k + 1), Len(s))

GeminiContextTurns == 5

\* the turns sent to the provider
Payload(kind, history, n) ==
    CASE kind = "gemini" -> LastN(history, GeminiContextTurns) \o <<UserTurn(n)>>
      [] kind = "claude" ->
            [i \in 1..Len(history) |->
                Turn(IF history[i].role = "assistant" THEN "assistant" ELSE "user",
                     history[i].content)] \o <<UserTurn(n)>>
      [] OTHER -> history \o <<UserTurn(n)>>

\* generate_response up to its await: either it returns at once (no
\* credential, no endpoint) or it suspends with the request sent
GenerateBegin(svc, n, history, user_token) ==
    LET key == GetEffectiveKey(svc, user_token)
        unconfigured == IF svc.kind = "custom"
                        THEN ~IsAvailable(svc, NoneTok)
                        ELSE ~Truthy(key)
    IN  IF unconfigured
        THEN [suspended |-> FALSE, value |-> NotConfiguredMsg(svc.kind),
              history |-> history, payload |-> << >>, auth |-> NoneTok]
        ELSE [suspended |-> TRUE, value |-> Reply(0),
              history |-> HistoryAfterCall(svc.kind, history, n),
              payload |-> Payload(svc.kind, history, n),
              auth |-> IF Truthy(key) THEN key ELSE NoneTok]

\* the body of the try block after the await: the exception it raises, if
\* any, and the value it returns otherwise
TryBody(kind, n, o) ==
    LET raise(exc) == [exc |-> exc, status |-> o.status, value |-> Reply(n)]
        return(v) == [exc |-> "none", status |-> o.status, value |-> v]
    IN  IF kind = "gemini"
        THEN \* the SDK call: no HTTP response is read by the adapter
             IF o.err = "network" THEN raise("NetworkError")
             ELSE IF o.status # 200 THEN raise("GoogleAPIError")
             ELSE IF o.shape \in {"other", "invalid_json"} THEN raise("ValueError")
             ELSE return(Reply(n))
        ELSE IF o.err = "network" THEN raise("ConnectError")
        ELSE IF o.status # 200 THEN raise("HTTPStatusError")
        ELSE IF o.shape = "invalid_json" THEN raise("JSONDecodeError")
        ELSE IF kind = "claude"
             THEN IF o.shape = "content" THEN return(Reply(n)) ELSE raise("KeyError")
        ELSE IF kind = "custom"
             THEN IF o.shape \in {"choices", "response"}
                  THEN return(Reply(n))
                  ELSE return(DumpMsg(n))
        ELSE IF o.shape = "choices" THEN return(Reply(n)) ELSE raise("KeyError")

\* mutant of ExceptClauses: the "except Exception" clause is missing
ExceptClausesStatusOnly(kind, r) ==
    IF kind # "gemini" /\ r.exc = "HTTPStatusError"
    THEN [raised |-> FALSE,
          value |-> IF kind # "custom" /\ r.status = 401
                    THEN InvalidKeyMsg
                    ELSE ApiErrorMsg(kind, r.status)]
    ELSE [raised |-> TRUE, value |-> ErrorMsg(r.exc)]

\* the except clauses of generate_response
ExceptClauses(kind, r) ==
    IF kind = "gemini"
    THEN [raised |-> FALSE,
          value |-> IF r.status = 401 THEN InvalidKeyMsg ELSE GeminiErrorMsg(r.exc)]
    ELSE IF r.exc = "HTTPStatusError"
         THEN [raised |-> FALSE,
               value |-> IF kind # "custom" /\ r.status = 401
                         THEN InvalidKeyMsg
                         ELSE ApiErrorMsg(kind, r.status)]
    ELSE [raised |-> FALSE, value |-> ErrorMsg(r.exc)]

\* generate_response from its await on: what the caller gets
GenerateEnd(kind, n, o) ==
    LET r == TryBody(kind, n, o)
    IN  IF r.exc = "none"
        THEN [raised |-> FALSE, value |-> r.value]
        ELSE ExceptClauses(kind, r)

\* generate_response as one call
Generate(svc, n, history, user_token, o) ==
    LET b == GenerateBegin(svc, n, history, user_token)
    IN  IF b.suspended
        THEN [raised |-> GenerateEnd(svc.kind, n, o).raised,
              value |-> GenerateEnd(svc.kind, n, o).value,
              history |-> b.history, requests |-> 1, auth |-> b.auth]
        ELSE [raised |-> FALSE, value |-> b.value,
              history |-> b.history, requests |-> 0, auth |-> NoneTok]

----------------------------------------------------------------------------
(* app/ai_services.py: AIServiceManager *)

\* AIServiceManager.available_models
AvailableModels ==
    [p \in Providers |->
        CASE p = "chatgpt" -> <<"gpt-5", "gpt-5-mini", "gpt-4.1", "gpt-4o", "gpt-4o-mini">>
          [] p = "gemini" -> <<"gemini-2.5-pro", "gemini-2.5-flash">>
          [] p = "claude" -> <<"claude-opus-4.1", "claude-sonnet-4.5", "claude-haiku-4.5">>
          [] p = "grok" -> <<"grok-4", "grok-4-fast", "grok-code-fast-1">>
          [] p = "custom" -> <<"llama-4-scout", "llama-3.3-70b", "magistral-medium",
                               "devstral-small">>]

\* AIServiceManager.get_models_for_provider
GetModelsForProvider(p) == IF p \in DOMAIN AvailableModels THEN AvailableModels[p] ELSE << >>

\* AIServiceManager.get_service
GetService(service_name, model) ==
    IF Lower(service_name) \notin Providers
    THEN NoService
    ELSE IF TruthyId(model)
         THEN NewService(Lower(service_name), model)
         ELSE NewService(Lower(service_name), DefaultModel(Lower(service_name)))

\* AIServiceManager.services, built once at import
Services == [p \in Providers |-> NewService(p, DefaultModel(p))]

\* AIServiceManager.get_available_services, called without a user
GetAvailableServices == {p \in Providers : IsAvailable(Services[p], NoneTok)}

----------------------------------------------------------------------------
(* app/user_tokens.py: UserTokenManager, as operations on the two dicts *)

Put(f, k, v) == [x \in DOMAIN f \cup {k} |-> IF x = k THEN v ELSE f[x]]

Del(f, k) == [x \in DOMAIN f \ {k} |-> f[x]]

EmptyDict == << >>

\* the entry of key v in a dict, as a set: empty when v has none
Entry(d, v) == IF v \in DOMAIN d THEN {d[v]} ELSE {}

\* set_token (set_at, the time of the call, is not modelled)
SetToken(tokens, u, p, token, model) ==
    LET mine == IF u \in DOMAIN tokens THEN tokens[u] ELSE EmptyDict
    IN  Put(tokens, u, Put(mine, p, [token |-> token, model |-> model]))

\* mutant of GetToken: an empty token counts as no token
GetTokenTruthy(tokens, u, p) ==
    IF u \notin DOMAIN tokens THEN NoneTok
    ELSE IF p \in DOMAIN tokens[u] /\ tokens[u][p].token # EmptyStr THEN tokens[u][p].token
    ELSE NoneTok

\* get_token
GetToken(tokens, u, p) ==
    IF u \notin DOMAIN tokens THEN NoneTok
    ELSE IF p \in DOMAIN tokens[u] THEN tokens[u][p].token
    ELSE NoneTok

\* remove_token: the dict afterwards and the value returned
RemoveToken(tokens, u, p) ==
    IF u \in DOMAIN tokens /\ p \in DOMAIN tokens[u]
    THEN [tokens |-> Put(tokens, u, Del(tokens[u], p)), result |-> TRUE]
    ELSE [tokens |-> tokens, result |-> FALSE]

\* get_user_providers
GetUserProviders(tokens, u) == IF u \notin DOMAIN tokens THEN {} ELSE DOMAIN tokens[u]

\* has_token
HasToken(tokens, u, p) == GetToken(tokens, u, p) # NoneTok

\* get_model
GetModel(tokens, u, p) ==
    IF u \notin DOMAIN tokens THEN None
    ELSE IF p \in DOMAIN tokens[u] THEN tokens[u][p].model
    ELSE None

\* mutant of SetModel: the model is stored whether or not a credential is
SetModelAlways(tokens, u, p, model) ==
    SetToken(tokens, u, p, GetToken(tokens, u, p), model)

\* set_model
SetModel(tokens, u, p, model) ==
    IF u \in DOMAIN tokens /\ p \in DOMAIN tokens[u]
    THEN Put(tokens, u, Put(tokens[u], p, [token |-> tokens[u][p].token, model |-> model]))
    ELSE tokens

\* set_preferred_provider
SetPreferredProvider(prefs, u, p) == Put(prefs, u, p)

\* get_preferred_provider
GetPreferredProvider(prefs, u) == IF u \in DOMAIN prefs THEN prefs[u] ELSE None

\* mutant of ClearUserData: nothing is deleted
ClearUserDataKept(d, u) == d

\* clear_user_data, on either dict
ClearUserData(d, u) == IF u \in DOMAIN d THEN Del(d, u) ELSE d

\* get_user_config (set_at is not modelled)
GetUserConfig(tokens, prefs, u) ==
    [preferred_provider |-> GetPreferredProvider(prefs, u),
     configured_providers |->
        IF u \in DOMAIN tokens
        THEN {[provider |-> p, model |-> tokens[u][p].model] : p \in DOMAIN tokens[u]}
        ELSE {}]

----------------------------------------------------------------------------
(* app/handlers.py: state of the setup dialogue and of the displayed keyboards *)

\* SetupStates; None is "no state"
SetupStates == {"selecting_provider", "selecting_model", "entering_token"}

\* data.get("selected_provider")
SelectedProvider(u) ==
    IF "selected_provider" \in DOMAIN fsm_data[u] THEN fsm_data[u]["selected_provider"] ELSE None

\* the messages that carry an inline keyboard, by the buttons they carry:
\* provider buttons, model buttons of a provider (with Back), Cancel,
\* "Setup AI Provider", and the Yes/No of /cleardata
NoKeyboards ==
    [providers |-> 0, models |-> [p \in Providers |-> 0], cancel |-> 0, setup |-> 0,
     cleardata |-> 0]

\* the providers whose model buttons are on display
ShownModelKeyboards(u) == {p \in Providers : keyboards[u].models[p] > 0}

\* the 10-turn window
MaxHistory == 10

\* handle_ai_message: "if len(...) > 10: ... = ...[-10:]"
Trim(turns) ==
    IF Len(turns) > MaxHistory THEN LastN(turns, MaxHistory) ELSE turns

\* the calls of user u that are in flight
CallsOf(u) == {c \in calls : c.user = u}

\* another handler of u has touched u's transcript: the calls of u in flight
\* no longer run alone
Disturb(u) == {IF c.user = u THEN [c EXCEPT !.alone = FALSE] ELSE c : c \in calls}

\* a reply of the message router
RouterReply(n, kind, content, model) ==
    [n |-> n, kind |-> kind, content |-> content, model |-> model]

NoReply == RouterReply(0, "none", Text(0), None)

NoResult ==
    [called |-> FALSE, svc |-> NoService, user_token |-> NoneTok,
     outcome |-> [err |-> "none", status |-> 0, shape |-> "other"],
     raised |-> FALSE, value |-> Text(0), requests |-> 0, auth |-> NoneTok]

\* an exception that a handler of u did not catch
Unhandled(u, handler, exc) == [user |-> u, handler |-> handler, exc |-> exc]

\* no method of the store has been called directly
NoApi ==
    [calls |-> 0, op |-> None, user |-> None, provider |-> None, ret |-> None,
     prev |-> [op |-> None, user |-> None, provider |-> None]]

\* stages of a setup run: 1 started, 2 provider chosen and credential asked
\* for, 3 credential submitted (token: the text sent, deleted: whether the
\* message carrying it could be deleted), 4 model chosen
NoRun == [stage |-> 0, provider |-> None, token |-> NoneTok, deleted |-> TRUE, model |-> None]

\* a setup session: the stored credentials and preference of the user when
\* the session was entered, and the provider chosen since the provider
\* selection was last shown
NoSession == [chosen |-> None, tokens0 |-> {}, prefs0 |-> {}]

\* a session entered now
SessionStarted(u) ==
    [session EXCEPT ![u] = [chosen |-> None,
                            tokens0 |-> Entry(user_tokens, u),
                            prefs0 |-> Entry(user_preferences, u)]]

\* a provider call of u starts: the calls of the other users in flight now
\* overlap with it
Overlap(u) == {IF c.user # u THEN [c EXCEPT !.overlap = TRUE] ELSE c : c \in Disturb(u)}

\* the ledger when the next chat text of u has entered the router, with the
\* provider calls made and the replies sent for it so far
Entered(u, issued, replies) ==
    [ledger EXCEPT ![u] = Append(@, [issued |-> issued, replies |-> replies])]

\* any handler of u other than the next step of a setup run ends the run
ResetRun(u) == [run EXCEPT ![u] = NoRun]

store == <<user_tokens, user_preferences>>
dialogue == <<fsm_state, fsm_data, session>>
chat == <<user_conversations, calls, sent, replied, routed, ledger, result, api>>

----------------------------------------------------------------------------
(* app/handlers.py: the setup dialogue *)

\* show_provider_selection: always a new message ("isinstance(message, Message)"
\* holds for a command's message and for a callback's message alike)
ShowProviderSelection(u) ==
    /\ fsm_state' = [fsm_state EXCEPT ![u] = "selecting_provider"]
    /\ keyboards' = [keyboards EXCEPT ![u].providers = @ + 1]

\* mutant of OpensSetup: the user's own credentials do not count
OpensSetupEnvOnly(user_providers, has_env_providers) == has_env_providers

\* cmd_start: "if user_providers or has_env_providers"
OpensSetup(user_providers, has_env_providers) ==
    user_providers # {} \/ has_env_providers

\* cmd_start
cmd_start(u) ==
    /\ budget.prompts > 0
    /\ budget' = [budget EXCEPT !.prompts = @ - 1]
    /\ IF OpensSetup(GetUserProviders(user_tokens, u), GetAvailableServices # {})
       THEN /\ ShowProviderSelection(u)
            /\ session' = SessionStarted(u)
            /\ run' = [run EXCEPT ![u] = [NoRun EXCEPT !.stage = 1]]
       ELSE /\ keyboards' = [keyboards EXCEPT ![u].setup = @ + 1]
            /\ fsm_state' = fsm_state
            /\ session' = session
            /\ run' = ResetRun(u)
    /\ UNCHANGED <<environ, unhandled, store, fsm_data, chat>>

\* setup_start, for the "Setup AI Provider" button of a welcome on display
setup_start(u) ==
    /\ keyboards[u].setup > 0
    /\ budget.prompts > 0
    /\ budget' = [budget EXCEPT !.prompts = @ - 1]
    /\ ShowProviderSelection(u)
    /\ session' = SessionStarted(u)
    /\ run' = [run EXCEPT ![u] = [NoRun EXCEPT !.stage = 1]]
    /\ UNCHANGED <<environ, unhandled, store, fsm_data, chat>>

\* mutant of NeedsNoToken: only the user's own credential counts
NeedsNoTokenUserOnly(has_env, has_user_token) == has_user_token

\* select_provider: "if has_env or has_user_token"
NeedsNoToken(has_env, has_user_token) == has_env \/ has_user_token

\* select_provider: "await state.update_data(selected_provider=provider_id)"
RecordSelection(data, provider_id) == Put(data, "selected_provider", provider_id)

\* select_provider, for a button of a provider keyboard on display; with
\* show_model_selection and request_token, which edit that message
select_provider(u, provider_id) ==
    /\ keyboards[u].providers > 0
    /\ fsm_state[u] \in {"selecting_provider", None}
    /\ fsm_data' = [fsm_data EXCEPT ![u] = RecordSelection(@, provider_id)]
    /\ session' = IF fsm_state[u] = None
                  THEN [SessionStarted(u) EXCEPT ![u].chosen = provider_id]
                  ELSE [session EXCEPT ![u].chosen = provider_id]
    /\ LET service == GetService(provider_id, None)
           has_env == IsAvailable(service, NoneTok)
           has_user_token == HasToken(user_tokens, u, provider_id)
       IN  IF service = NoService
           THEN \* service.is_available() raises AttributeError
                /\ unhandled' = unhandled \cup {Unhandled(u, "select_provider",
                                                            "AttributeError")}
                /\ UNCHANGED <<fsm_state, keyboards>>
                /\ run' = ResetRun(u)
           ELSE IF NeedsNoToken(has_env, has_user_token)
           THEN /\ unhandled' = unhandled
                /\ fsm_state' = [fsm_state EXCEPT ![u] = "selecting_model"]
                /\ keyboards' = [keyboards EXCEPT ![u].providers = @ - 1,
                                                  ![u].models[provider_id] = @ + 1]
                /\ run' = ResetRun(u)
           ELSE /\ unhandled' = unhandled
                /\ fsm_state' = [fsm_state EXCEPT ![u] = "entering_token"]
                /\ keyboards' = [keyboards EXCEPT ![u].providers = @ - 1,
                                                  ![u].cancel = @ + 1]
                /\ run' = IF run[u].stage = 1
                          THEN [run EXCEPT ![u] = [NoRun EXCEPT !.stage = 2,
                                                                !.provider = provider_id]]
                          ELSE ResetRun(u)
    /\ UNCHANGED <<environ, store, chat, budget>>

\* mutant of SwallowsDeleteFailure: the failure of delete() propagates
SwallowsDeleteFailureNot == FALSE

\* receive_token: "try: await message.delete() except: pass"
SwallowsDeleteFailure == TRUE

\* receive_token: the provider the credential is stored for
TokenProvider(u) == SelectedProvider(u)

\* receive_token: any message while entering_token, whether or not the
\* deletion of the message succeeds
receive_token(u, text, delete_ok) ==
    /\ fsm_state[u] = "entering_token"
    /\ budget.tokens > 0
    /\ budget' = [budget EXCEPT !.tokens = @ - 1]
    /\ LET token == Strip(text)
           provider_id == TokenProvider(u)
       IN  IF ~delete_ok /\ ~SwallowsDeleteFailure
           THEN /\ UNCHANGED <<user_tokens, fsm_state, keyboards>>
                /\ run' = ResetRun(u)
           ELSE /\ user_tokens' = SetToken(user_tokens, u, provider_id, token, None)
                /\ IF provider_id \in Providers
                   THEN /\ fsm_state' = [fsm_state EXCEPT ![u] = "selecting_model"]
                        /\ keyboards' = [keyboards EXCEPT ![u].models[provider_id] = @ + 1]
                   ELSE \* provider_id.upper() raises on None
                        UNCHANGED <<fsm_state, keyboards>>
                /\ run' = IF run[u].stage = 2 /\ run[u].provider = provider_id
                          THEN [run EXCEPT ![u] = [NoRun EXCEPT !.stage = 3,
                                                                !.provider = provider_id,
                                                                !.token = text,
                                                                !.deleted = delete_ok]]
                          ELSE ResetRun(u)
    /\ UNCHANGED <<environ, unhandled, user_preferences, fsm_data, session, chat>>

\* select_model: "if has_token(...): set_model(...)"
StoresModel(tokens, u, provider_id, model) ==
    IF HasToken(tokens, u, provider_id)
    THEN SetModel(tokens, u, provider_id, model)
    ELSE tokens

\* mutant of PreferredAfterSetup: the preference is not written
PreferredAfterSetupKept(prefs, u, provider_id) == prefs

\* select_model: "set_preferred_provider(user_id, provider_id)"
PreferredAfterSetup(prefs, u, provider_id) == SetPreferredProvider(prefs, u, provider_id)

\* the model buttons of the keyboard shown for provider p
ModelButtons(p) == {GetModelsForProvider(p)[i] : i \in 1..Len(GetModelsForProvider(p))}

\* select_model, for a model button of a model keyboard on display
select_model(u, shown, model) ==
    /\ fsm_state[u] = "selecting_model"
    /\ shown \in ShownModelKeyboards(u)
    /\ model \in ModelButtons(shown)
    /\ LET provider_id == SelectedProvider(u)
       IN  /\ user_preferences' = PreferredAfterSetup(user_preferences, u, provider_id)
           /\ user_tokens' = StoresModel(user_tokens, u, provider_id, model)
           /\ run' = IF run[u].stage = 3 /\ run[u].provider = provider_id
                     THEN [run EXCEPT ![u].stage = 4, ![u].model = model]
                     ELSE ResetRun(u)
    /\ fsm_state' = [fsm_state EXCEPT ![u] = None]
    /\ fsm_data' = [fsm_data EXCEPT ![u] = EmptyDict]
    /\ session' = [session EXCEPT ![u] = NoSession]
    /\ keyboards' = [keyboards EXCEPT ![u].models[shown] = @ - 1]
    /\ UNCHANGED <<environ, unhandled, chat, budget>>

\* cancel_token_entry, for the Cancel button of a credential request on display
cancel_token_entry(u) ==
    /\ keyboards[u].cancel > 0
    /\ fsm_state' = [fsm_state EXCEPT ![u] = None]
    /\ fsm_data' = [fsm_data EXCEPT ![u] = EmptyDict]
    /\ session' = [session EXCEPT ![u] = NoSession]
    /\ keyboards' = [keyboards EXCEPT ![u].cancel = @ - 1]
    /\ run' = ResetRun(u)
    /\ UNCHANGED <<environ, unhandled, store, chat, budget>>

\* back_to_providers, for the Back button of a model keyboard on display
back_to_providers(u) ==
    /\ ShownModelKeyboards(u) # {}
    /\ budget.prompts > 0
    /\ budget' = [budget EXCEPT !.prompts = @ - 1]
    /\ ShowProviderSelection(u)
    /\ session' = IF fsm_state[u] = None
                  THEN SessionStarted(u)
                  ELSE [session EXCEPT ![u].chosen = None]
    /\ run' = ResetRun(u)
    /\ UNCHANGED <<environ, unhandled, store, fsm_data, chat>>

\* mutant of NotEnteringToken: the handlers registered after receive_token
\* get the message whatever the state of the session
NotEnteringTokenAlways(u) == TRUE

\* a text command other than /start reaches its handler only when
\* receive_token, registered before it, does not take the message
NotEnteringToken(u) == fsm_state[u] # "entering_token"

\* cmd_cleardata
cmd_cleardata(u) ==
    /\ NotEnteringToken(u)
    /\ budget.prompts > 0
    /\ budget' = [budget EXCEPT !.prompts = @ - 1]
    /\ keyboards' = [keyboards EXCEPT ![u].cleardata = @ + 1]
    /\ run' = ResetRun(u)
    /\ UNCHANGED <<environ, unhandled, store, dialogue, chat>>

\* mutant of ClearedUsers: the entries of every user are deleted
ClearedUsersAll(u) == Users

\* confirm_cleardata and cmd_clear: whose entries are deleted
ClearedUsers(u) == {u}

RECURSIVE DelAll(_, _)
DelAll(d, us) ==
    IF us = {} THEN d
    ELSE LET x == CHOOSE x \in us : TRUE
         IN  DelAll(ClearUserData(d, x), us \ {x})

\* mutant of WithoutTranscript: cleardata clears the token manager only
WithoutTranscriptKept(conversations, u) == conversations

\* confirm_cleardata: "if user_id in user_conversations:
\* del user_conversations[user_id]"
WithoutTranscript(conversations, u) == DelAll(conversations, ClearedUsers(u))

\* confirm_cleardata, for the Yes button of a /cleardata prompt on display
confirm_cleardata(u) ==
    /\ keyboards[u].cleardata > 0
    /\ user_tokens' = DelAll(user_tokens, ClearedUsers(u))
    /\ user_preferences' = DelAll(user_preferences, ClearedUsers(u))
    /\ user_conversations' = WithoutTranscript(user_conversations, u)
    /\ calls' = Disturb(u)
    /\ keyboards' = [keyboards EXCEPT ![u].cleardata = @ - 1]
    /\ routed' = [v \in Users |-> IF v \in ClearedUsers(u) THEN << >> ELSE routed[v]]
    /\ session' = [v \in Users |->
                      IF v \in ClearedUsers(u)
                      THEN [session[v] EXCEPT !.tokens0 = {}, !.prefs0 = {}]
                      ELSE session[v]]
    /\ run' = ResetRun(u)
    /\ UNCHANGED <<environ, unhandled, fsm_state, fsm_data, sent, replied, ledger, result, api,
                   budget>>

\* cancel_cleardata, for the No button of a /cleardata prompt on display
cancel_cleardata(u) ==
    /\ keyboards[u].cleardata > 0
    /\ keyboards' = [keyboards EXCEPT ![u].cleardata = @ - 1]
    /\ run' = ResetRun(u)
    /\ UNCHANGED <<environ, unhandled, store, dialogue, chat, budget>>

\* mutant of Cleared: the transcript is emptied, not deleted
ClearedToEmpty(conversations, u) == Put(conversations, u, << >>)

\* cmd_clear: "if user_id in user_conversations: del user_conversations[user_id]"
Cleared(conversations, u) == DelAll(conversations, ClearedUsers(u))

\* cmd_clear
cmd_clear(u) ==
    /\ NotEnteringToken(u)
    /\ user_conversations' = Cleared(user_conversations, u)
    /\ calls' = Disturb(u)
    /\ routed' = [v \in Users |-> IF v \in ClearedUsers(u) THEN << >> ELSE routed[v]]
    /\ run' = ResetRun(u)
    /\ UNCHANGED <<environ, unhandled, store, dialogue, keyboards, sent, replied, ledger, result,
                   api, budget>>

----------------------------------------------------------------------------
(* app/handlers.py: the message router *)

\* mutant of Appended: an error string is not recorded in the transcript
AppendedUnlessError(turns, n, value) ==
    IF value.tag \in {"reply", "dump"}
    THEN turns \o <<UserTurn(n), Turn("assistant", value)>>
    ELSE turns

\* handle_ai_message: the two appends after generate_response has returned
Appended(turns, n, value) == turns \o <<UserTurn(n), Turn("assistant", value)>>

\* mutant of Recorded: the user's text is appended before generate_response
\* is called
RecordedUserFirst(turns, n, res) ==
    IF res.raised
    THEN Trim(turns \o <<UserTurn(n)>>)
    ELSE Trim(Appended(turns, n, res.value))

\* handle_ai_message: what the try block leaves of the user's transcript:
\* nothing new when generate_response raised, the two appends and the trim
\* when it returned
Recorded(turns, n, res) ==
    IF res.raised THEN turns ELSE Trim(Appended(turns, n, res.value))

\* handle_ai_message from the value of generate_response on: the two appends,
\* the trim and the reply; the except clause when generate_response raised or
\* the user's transcript is no longer in user_conversations (KeyError)
RouterFinish(conversations, u, n, res, svc) ==
    IF u \notin DOMAIN conversations
    THEN /\ user_conversations' = conversations
         /\ routed' = routed
         /\ replied' = [replied EXCEPT ![u] =
                RouterReply(n, "error",
                            IF res.raised THEN res.value ELSE ErrorMsg("KeyError"), None)]
    ELSE /\ user_conversations' = Put(conversations, u, Recorded(conversations[u], n, res))
         /\ routed' = [routed EXCEPT ![u] =
                IF res.raised THEN @ ELSE Appended(@, n, res.value)]
         /\ replied' = [replied EXCEPT ![u] =
                IF res.raised
                THEN RouterReply(n, "error", res.value, None)
                ELSE RouterReply(n, "answer", res.value, svc.model)]

\* the awaited provider call of c raises exc (an adapter put in the place of
\* the registry's that raises, as the router's test does) and
\* handle_ai_message runs to its end through its except clause
generate_raised(c, exc) ==
    /\ c \in calls
    /\ calls' = {IF d.user = c.user THEN [d EXCEPT !.alone = FALSE] ELSE d : d \in calls \ {c}}
    /\ RouterFinish(user_conversations, c.user, c.n,
                    [raised |-> TRUE, value |-> ErrorMsg(exc)], c.svc)
    /\ ledger' = [ledger EXCEPT ![c.user][c.n].replies = @ + 1]
    /\ UNCHANGED <<environ, unhandled, store, dialogue, keyboards, sent, result, api, run, budget>>

\* mutant of HasProvider: the check of the preferred provider is skipped
HasProviderAlways(provider_id) == TRUE

\* handle_ai_message: the negation of "if not provider_id"
HasProvider(provider_id) == TruthyId(provider_id)

\* mutant of NotConfigured: only a missing adapter stops the router
NotConfiguredMissingOnly(ai_service, user_token) == ai_service = NoService

\* handle_ai_message: "if not ai_service or not ai_service.is_available(user_token)"
NotConfigured(ai_service, user_token) ==
    ai_service = NoService \/ ~IsAvailable(ai_service, user_token)

\* mutant of WithTranscript: creating the transcript of a user replaces the
\* whole conversation store
WithTranscriptOnly(conversations, u) ==
    IF u \in DOMAIN conversations THEN conversations ELSE [v \in {u} |-> << >>]

\* handle_ai_message: "if user_id not in user_conversations:
\* user_conversations[user_id] = []"
WithTranscript(conversations, u) ==
    IF u \in DOMAIN conversations THEN conversations ELSE Put(conversations, u, << >>)

\* handle_ai_message up to the await inside generate_response
handle_ai_message(u) ==
    /\ NotEnteringToken(u)
    /\ Cardinality(CallsOf(u)) < budget.inflight
    /\ budget.msgs[u] > 0
    /\ budget' = [budget EXCEPT !.msgs[u] = @ - 1]
    /\ sent' = [sent EXCEPT ![u] = @ + 1]
    /\ run' = ResetRun(u)
    /\ LET n == sent[u] + 1
           provider_id == GetPreferredProvider(user_preferences, u)
           user_token == GetToken(user_tokens, u, provider_id)
           user_model == GetModel(user_tokens, u, provider_id)
           ai_service == GetService(provider_id, user_model)
       IN  IF ~HasProvider(provider_id)
           THEN /\ replied' = [replied EXCEPT ![u] =
                        RouterReply(n, "no_provider", Text(0), None)]
                /\ ledger' = Entered(u, 0, 1)
                /\ UNCHANGED <<user_conversations, calls, routed>>
           ELSE IF NotConfigured(ai_service, user_token)
           THEN /\ replied' = [replied EXCEPT ![u] =
                        RouterReply(n, "not_configured", Text(0), None)]
                /\ ledger' = Entered(u, 0, 1)
                /\ UNCHANGED <<user_conversations, calls, routed>>
           ELSE LET created == WithTranscript(user_conversations, u)
                    b == GenerateBegin(ai_service, n, created[u], user_token)
                    passed == Put(created, u, b.history)
                IN  IF b.suspended
                    THEN /\ user_conversations' = passed
                         /\ calls' = Overlap(u) \cup
                                {[user |-> u, n |-> n, svc |-> ai_service,
                                  auth |-> b.auth, payload |-> b.payload,
                                  hist0 |-> created[u], alone |-> CallsOf(u) = {},
                                  overlap |-> calls # CallsOf(u)]}
                         /\ ledger' = Entered(u, 1, 0)
                         /\ UNCHANGED <<replied, routed>>
                    ELSE /\ calls' = Disturb(u)
                         /\ ledger' = Entered(u, 1, 1)
                         /\ RouterFinish(passed, u, n, [raised |-> FALSE, value |-> b.value],
                                         ai_service)
    /\ UNCHANGED <<environ, unhandled, store, dialogue, keyboards, result, api>>

\* mutant of Settled: after an error string the provider call is made once
\* more
SettledUnlessFailed(c, o) ==
    \/ GenerateEnd(c.svc.kind, c.n, o).value.tag \in {"reply", "dump"}
    \/ ledger[c.user][c.n].issued >= 2

\* handle_ai_message: line 238 is not inside a loop, so whatever
\* generate_response gives, the handler goes on to its reply and ends
Settled(c, o) == TRUE

\* the awaited provider call of c completes with outcome o and
\* handle_ai_message runs to its end
generate_returned(c, o) ==
    /\ c \in calls
    /\ IF Settled(c, o)
       THEN /\ calls' = {IF d.user = c.user THEN [d EXCEPT !.alone = FALSE] ELSE d :
                            d \in calls \ {c}}
            /\ RouterFinish(user_conversations, c.user, c.n,
                            GenerateEnd(c.svc.kind, c.n, o), c.svc)
            /\ ledger' = [ledger EXCEPT ![c.user][c.n].replies = @ + 1]
       ELSE /\ ledger' = [ledger EXCEPT ![c.user][c.n].issued = @ + 1]
            /\ UNCHANGED <<user_conversations, calls, replied, routed>>
    /\ UNCHANGED <<environ, unhandled, store, dialogue, keyboards, sent, result, api, run, budget>>

----------------------------------------------------------------------------
(* The bot from process start *)

EnvKey == <<"e", "n", "v">>

\* the environments the process is started in: nothing set, every key set,
\* and a custom key with an empty endpoint variable
Environments ==
    { EmptyDict,
      [v \in {KeyVar(p) : p \in Providers} |-> EnvKey],
      [v \in {"CUSTOM_LLM_API_KEY", "CUSTOM_LLM_BASE_URL"} |->
          IF v = "CUSTOM_LLM_BASE_URL" THEN EmptyStr ELSE EnvKey] }

\* the texts users send as credentials
TokenTexts == { <<"k", "1">>, <<" ", "k", "2", "\n">> }

\* the outcomes of the provider call explored by the router
RouterOutcomes ==
    {o \in Outcomes : o.status = 401 \/ (o.status = 200 /\ o.shape \in {"choices", "content"})}

\* the model buttons users press
PressedButtons(p) ==
    {GetModelsForProvider(p)[i] :
        i \in {j \in 1..MaxModelButtons : j <= Len(GetModelsForProvider(p))}}

Init ==
    /\ environ \in Environments
    /\ user_tokens = EmptyDict
    /\ user_preferences = EmptyDict
    /\ user_conversations = EmptyDict
    /\ fsm_state = [u \in Users |-> None]
    /\ fsm_data = [u \in Users |-> EmptyDict]
    /\ session = [u \in Users |-> NoSession]
    /\ keyboards = [u \in Users |-> NoKeyboards]
    /\ calls = {}
    /\ sent = [u \in Users |-> 0]
    /\ replied = [u \in Users |-> NoReply]
    /\ routed = [u \in Users |-> << >>]
    /\ ledger = [u \in Users |-> << >>]
    /\ result = NoResult
    /\ api = NoApi
    /\ unhandled = {}
    /\ run = [u \in Users |-> NoRun]
    /\ budget = [prompts |-> MaxPrompts, tokens |-> MaxTokenEntries,
                 msgs |-> [u \in Users |-> MaxSetupMsgs], inflight |-> MaxInflight]

Next ==
    \/ \E u \in Users : cmd_start(u)
    \/ \E u \in Users : setup_start(u)
    \/ \E u \in Users, p \in Providers : select_provider(u, p)
    \/ \E u \in Users, t \in TokenTexts, ok \in BOOLEAN : receive_token(u, t, ok)
    \/ \E u \in Users, p \in Providers : \E m \in PressedButtons(p) : select_model(u, p, m)
    \/ \E u \in Users : cancel_token_entry(u)
    \/ \E u \in Users : back_to_providers(u)
    \/ \E u \in Users : cmd_cleardata(u)
    \/ \E u \in Users : confirm_cleardata(u)
    \/ \E u \in Users : cancel_cleardata(u)
    \/ \E u \in Users : cmd_clear(u)
    \/ \E u \in Users : handle_ai_message(u)
    \/ \E c \in calls, o \in RouterOutcomes : generate_returned(c, o)

Spec == Init /\ [][Next]_vars

----------------------------------------------------------------------------
(* The message router on its own: both users have finished a setup for the
   same provider, the first with a stored credential and the second without *)

ChatEnvironments == { EmptyDict, [v \in {KeyVar(p) : p \in Providers} |-> EnvKey] }

ChatToken == <<"k", "1">>

InitChat ==
    /\ environ \in ChatEnvironments
    /\ \E p \in Providers :
          /\ user_tokens = SetToken(EmptyDict, "u1", p, ChatToken, None)
          /\ user_preferences = [u \in Users |-> p]
    /\ user_conversations = EmptyDict
    /\ fsm_state = [u \in Users |-> None]
    /\ fsm_data = [u \in Users |-> EmptyDict]
    /\ session = [u \in Users |-> NoSession]
    /\ keyboards = [u \in Users |-> NoKeyboards]
    /\ calls = {}
    /\ sent = [u \in Users |-> 0]
    /\ replied = [u \in Users |-> NoReply]
    /\ routed = [u \in Users |-> << >>]
    /\ ledger = [u \in Users |-> << >>]
    /\ result = NoResult
    /\ api = NoApi
    /\ unhandled = {}
    /\ run = [u \in Users |-> NoRun]
    /\ budget = [prompts |-> 0, tokens |-> 0,
                 msgs |-> [u \in Users |-> IF u = "u1" THEN MaxMsgs ELSE MaxOtherMsgs],
                 inflight |-> MaxChatInflight]

NextChat ==
    \/ \E u \in Users : handle_ai_message(u)
    \/ \E c \in calls, o \in RouterOutcomes : generate_returned(c, o)
    \/ \E u \in Users : cmd_clear(u)

SpecChat == InitChat /\ [][NextChat]_vars

----------------------------------------------------------------------------
(* The message router with any stored credentials: both users have chosen the
   same provider and each holds a credential for it or none *)

OtherToken == <<"k", "2">>

StoredTokens == {NoneTok, ChatToken, OtherToken}

\* chat texts each user sends in a run of the credential specification
MaxCredMsgs == 1

InitCred ==
    /\ environ \in ChatEnvironments
    /\ \E p \in Providers, t1 \in StoredTokens, t2 \in StoredTokens :
          /\ user_tokens =
                LET first == IF t1 = NoneTok THEN EmptyDict
                             ELSE SetToken(EmptyDict, "u1", p, t1, None)
                IN  IF t2 = NoneTok THEN first ELSE SetToken(first, "u2", p, t2, None)
          /\ user_preferences = [u \in Users |-> p]
    /\ user_conversations = EmptyDict
    /\ fsm_state = [u \in Users |-> None]
    /\ fsm_data = [u \in Users |-> EmptyDict]
    /\ session = [u \in Users |-> NoSession]
    /\ keyboards = [u \in Users |-> NoKeyboards]
    /\ calls = {}
    /\ sent = [u \in Users |-> 0]
    /\ replied = [u \in Users |-> NoReply]
    /\ routed = [u \in Users |-> << >>]
    /\ ledger = [u \in Users |-> << >>]
    /\ result = NoResult
    /\ api = NoApi
    /\ unhandled = {}
    /\ run = [u \in Users |-> NoRun]
    /\ budget = [prompts |-> 0, tokens |-> 0, msgs |-> [u \in Users |-> MaxCredMsgs],
                 inflight |-> MaxInflight]

SpecCred == InitCred /\ [][NextChat]_vars

----------------------------------------------------------------------------
(* generate_response called directly, once, on any service with any argument *)

\* the user_token arguments
TokenArguments == {NoneTok, EmptyStr, ChatToken}

\* the conversation_history arguments
HistoryArguments == { << >>, <<UserTurn(1), Turn("assistant", Reply(1))>> }

InitGen ==
    /\ environ \in Environments
    /\ user_tokens = EmptyDict
    /\ user_preferences = EmptyDict
    /\ \E h \in HistoryArguments : user_conversations = [u \in {"u1"} |-> h]
    /\ fsm_state = [u \in Users |-> None]
    /\ fsm_data = [u \in Users |-> EmptyDict]
    /\ session = [u \in Users |-> NoSession]
    /\ keyboards = [u \in Users |-> NoKeyboards]
    /\ calls = {}
    /\ sent = [u \in Users |-> 0]
    /\ replied = [u \in Users |-> NoReply]
    /\ routed = [u \in Users |-> << >>]
    /\ ledger = [u \in Users |-> << >>]
    /\ result = NoResult
    /\ api = NoApi
    /\ unhandled = {}
    /\ run = [u \in Users |-> NoRun]
    /\ budget = [prompts |-> 0, tokens |-> 0, msgs |-> [u \in Users |-> 0], inflight |-> 0]

\* one call generate_response(prompt, user_conversations["u1"], user_token) on
\* a fresh service of the kind, the provider call ending with outcome o
direct_generate(kind, user_token, o) ==
    /\ ~result.called
    /\ LET svc == NewService(kind, DefaultModel(kind))
           history == user_conversations["u1"]
           g == Generate(svc, Len(history) \div 2 + 1, history, user_token, o)
       IN  /\ result' = [called |-> TRUE, svc |-> svc, user_token |-> user_token,
                         outcome |-> o, raised |-> g.raised, value |-> g.value,
                         requests |-> g.requests, auth |-> g.auth]
           /\ user_conversations' = [user_conversations EXCEPT !["u1"] = g.history]
    /\ UNCHANGED <<environ, unhandled, store, dialogue, keyboards, calls, sent, replied, routed, ledger, api, run,
                   budget>>

NextGen == \E kind \in Providers, t \in TokenArguments, o \in Outcomes : direct_generate(kind, t, o)

SpecGen == InitGen /\ [][NextGen]_vars

----------------------------------------------------------------------------
(* The message router over any contents of the store: each user prefers any
   provider id, one the registry knows or not, and holds a credential for it
   or none *)

\* the provider ids set_preferred_provider is called with
PreferredIds == Providers \cup {"mistral"}

InitRoute ==
    /\ environ \in Environments
    /\ \E p1 \in PreferredIds, p2 \in PreferredIds :
       \E t1 \in {NoneTok, ChatToken}, t2 \in {NoneTok, ChatToken} :
          /\ user_tokens =
                LET first == IF t1 = NoneTok THEN EmptyDict
                             ELSE SetToken(EmptyDict, "u1", p1, t1, None)
                IN  IF t2 = NoneTok THEN first ELSE SetToken(first, "u2", p2, t2, None)
          /\ user_preferences =
                SetPreferredProvider(SetPreferredProvider(EmptyDict, "u1", p1), "u2", p2)
    /\ user_conversations = EmptyDict
    /\ fsm_state = [u \in Users |-> None]
    /\ fsm_data = [u \in Users |-> EmptyDict]
    /\ session = [u \in Users |-> NoSession]
    /\ keyboards = [u \in Users |-> NoKeyboards]
    /\ calls = {}
    /\ sent = [u \in Users |-> 0]
    /\ replied = [u \in Users |-> NoReply]
    /\ routed = [u \in Users |-> << >>]
    /\ ledger = [u \in Users |-> << >>]
    /\ result = NoResult
    /\ api = NoApi
    /\ unhandled = {}
    /\ run = [u \in Users |-> NoRun]
    /\ budget = [prompts |-> 0, tokens |-> 0, msgs |-> [u \in Users |-> MaxCredMsgs],
                 inflight |-> MaxInflight]

SpecRoute == InitRoute /\ [][NextChat]_vars

----------------------------------------------------------------------------
(* The message router with provider calls that always come to an end: every
   call in flight eventually returns, with an answer, a status, or a network
   failure or timeout (the HTTP adapters pass timeout=60.0 to httpx) *)

\* chat texts each user sends in a run of this specification
MaxLiveMsgs == 2

\* how the provider call of a chat text can end
LiveOutcomes == RouterOutcomes \cup {o \in Outcomes : o.err = "network"}

InitLive ==
    /\ environ \in ChatEnvironments
    /\ \E p \in Providers :
          /\ user_tokens = SetToken(EmptyDict, "u1", p, ChatToken, None)
          /\ user_preferences = [u \in Users |-> p]
    /\ user_conversations = EmptyDict
    /\ fsm_state = [u \in Users |-> None]
    /\ fsm_data = [u \in Users |-> EmptyDict]
    /\ session = [u \in Users |-> NoSession]
    /\ keyboards = [u \in Users |-> NoKeyboards]
    /\ calls = {}
    /\ sent = [u \in Users |-> 0]
    /\ replied = [u \in Users |-> NoReply]
    /\ routed = [u \in Users |-> << >>]
    /\ ledger = [u \in Users |-> << >>]
    /\ result = NoResult
    /\ api = NoApi
    /\ unhandled = {}
    /\ run = [u \in Users |-> NoRun]
    /\ budget = [prompts |-> 0, tokens |-> 0, msgs |-> [u \in Users |-> MaxLiveMsgs],
                 inflight |-> MaxInflight]

Returns == \E c \in calls, o \in LiveOutcomes : generate_returned(c, o)

NextLive ==
    \/ \E u \in Users : handle_ai_message(u)
    \/ Returns
    \/ \E u \in Users : cmd_clear(u)

SpecLive == InitLive /\ [][NextLive]_vars /\ WF_vars(Returns)

----------------------------------------------------------------------------
(* The message router with provider calls that may raise *)

\* what the adapter put in place raises
RaisedErrors == {"API Error"}

NextMock ==
    \/ \E u \in Users : handle_ai_message(u)
    \/ \E c \in calls, o \in RouterOutcomes : generate_returned(c, o)
    \/ \E c \in calls, exc \in RaisedErrors : generate_raised(c, exc)
    \/ \E u \in Users : cmd_clear(u)

SpecMock == InitLive /\ [][NextMock]_vars

----------------------------------------------------------------------------
(* The methods of UserTokenManager called directly, on any contents of the
   two dicts *)

\* direct calls per run
MaxApiCalls == 2

\* the provider arguments
StoreProviders == {"chatgpt", "custom"}

\* the token arguments: set_token stores any str, the empty one included
StoreTokenArguments == {ChatToken, OtherToken, EmptyStr}

\* the model arguments
StoreModels == {"gpt-4o", "llama-3.3-70b"}

\* what _user_tokens can hold for one user: no entry, or a dict with an entry
\* for any of the providers (the dict is empty after remove_token)
UserTokenDicts ==
    LET entries == {[token |-> ChatToken, model |-> None],
                    [token |-> EmptyStr, model |-> "gpt-4o"]}
    IN  UNION {[ps -> entries] : ps \in SUBSET StoreProviders}

\* the call made now, what it returned, and the call made before it
Called(op, u, p, ret) ==
    [calls |-> api.calls + 1, op |-> op, user |-> u, provider |-> p, ret |-> ret,
     prev |-> [op |-> api.op, user |-> api.user, provider |-> api.provider]]

InitStore ==
    /\ environ = EmptyDict
    /\ \E us \in SUBSET Users :
          /\ user_tokens \in [us -> UserTokenDicts]
          /\ "u2" \in us => DOMAIN user_tokens["u2"] = {"chatgpt"}
    /\ \E us \in SUBSET Users : user_preferences \in [us -> StoreProviders]
    /\ user_conversations = EmptyDict
    /\ fsm_state = [u \in Users |-> None]
    /\ fsm_data = [u \in Users |-> EmptyDict]
    /\ session = [u \in Users |-> NoSession]
    /\ keyboards = [u \in Users |-> NoKeyboards]
    /\ calls = {}
    /\ sent = [u \in Users |-> 0]
    /\ replied = [u \in Users |-> NoReply]
    /\ routed = [u \in Users |-> << >>]
    /\ ledger = [u \in Users |-> << >>]
    /\ result = NoResult
    /\ api = NoApi
    /\ unhandled = {}
    /\ run = [u \in Users |-> NoRun]
    /\ budget = [prompts |-> 0, tokens |-> 0, msgs |-> [u \in Users |-> 0], inflight |-> 0]

\* what a direct call leaves alone
beside == <<environ, unhandled, user_conversations, dialogue, keyboards, calls, sent, replied, routed,
            ledger, result, run, budget>>

set_token(u, p, token, model) ==
    /\ api.calls < MaxApiCalls
    /\ user_tokens' = SetToken(user_tokens, u, p, token, model)
    /\ api' = Called("set_token", u, p, None)
    /\ UNCHANGED <<user_preferences, beside>>

get_token(u, p) ==
    /\ api.calls < MaxApiCalls
    /\ api' = Called("get_token", u, p, GetToken(user_tokens, u, p))
    /\ UNCHANGED <<store, beside>>

remove_token(u, p) ==
    /\ api.calls < MaxApiCalls
    /\ user_tokens' = RemoveToken(user_tokens, u, p).tokens
    /\ api' = Called("remove_token", u, p, RemoveToken(user_tokens, u, p).result)
    /\ UNCHANGED <<user_preferences, beside>>

has_token(u, p) ==
    /\ api.calls < MaxApiCalls
    /\ api' = Called("has_token", u, p, HasToken(user_tokens, u, p))
    /\ UNCHANGED <<store, beside>>

set_model(u, p, model) ==
    /\ api.calls < MaxApiCalls
    /\ user_tokens' = SetModel(user_tokens, u, p, model)
    /\ api' = Called("set_model", u, p, None)
    /\ UNCHANGED <<user_preferences, beside>>

set_preferred_provider(u, p) ==
    /\ api.calls < MaxApiCalls
    /\ user_preferences' = SetPreferredProvider(user_preferences, u, p)
    /\ api' = Called("set_preferred_provider", u, p, None)
    /\ UNCHANGED <<user_tokens, beside>>

clear_user_data(u) ==
    /\ api.calls < MaxApiCalls
    /\ user_tokens' = ClearUserData(user_tokens, u)
    /\ user_preferences' = ClearUserData(user_preferences, u)
    /\ api' = Called("clear_user_data", u, None, None)
    /\ UNCHANGED beside

get_user_config(u) ==
    /\ api.calls < MaxApiCalls
    /\ api' = Called("get_user_config", u, None, GetUserConfig(user_tokens, user_preferences, u))
    /\ UNCHANGED <<store, beside>>

NextStore ==
    \/ \E u \in Users, p \in StoreProviders, t \in StoreTokenArguments :
          \E m \in {None, "gpt-4o"} : set_token(u, p, t, m)
    \/ \E u \in Users, p \in StoreProviders : get_token(u, p)
    \/ \E u \in Users, p \in StoreProviders : remove_token(u, p)
    \/ \E u \in Users, p \in StoreProviders : has_token(u, p)
    \/ \E u \in Users, p \in StoreProviders, m \in StoreModels : set_model(u, p, m)
    \/ \E u \in Users, p \in StoreProviders : set_preferred_provider(u, p)
    \/ \E u \in Users : clear_user_data(u)
    \/ \E u \in Users : get_user_config(u)

SpecStore == InitStore /\ [][NextStore]_vars

----------------------------------------------------------------------------
(* Clearing: both users have finished a setup for the same provider, each with
   a stored credential and a model, and chat, clear their history or clear
   their data *)

\* /cleardata prompts per run
MaxWipePrompts == 2

InitWipe ==
    /\ environ \in ChatEnvironments
    /\ \E p \in Providers :
          /\ user_tokens =
                SetToken(SetToken(EmptyDict, "u1", p, ChatToken, DefaultModel(p)),
                         "u2", p, OtherToken, DefaultModel(p))
          /\ user_preferences = [u \in Users |-> p]
    /\ user_conversations = EmptyDict
    /\ fsm_state = [u \in Users |-> None]
    /\ fsm_data = [u \in Users |-> EmptyDict]
    /\ session = [u \in Users |-> NoSession]
    /\ keyboards = [u \in Users |-> NoKeyboards]
    /\ calls = {}
    /\ sent = [u \in Users |-> 0]
    /\ replied = [u \in Users |-> NoReply]
    /\ routed = [u \in Users |-> << >>]
    /\ ledger = [u \in Users |-> << >>]
    /\ result = NoResult
    /\ api = NoApi
    /\ unhandled = {}
    /\ run = [u \in Users |-> NoRun]
    /\ budget = [prompts |-> MaxWipePrompts, tokens |-> 0,
                 msgs |-> [u \in Users |-> MaxLiveMsgs], inflight |-> MaxChatInflight]

NextWipe ==
    \/ \E u \in Users : handle_ai_message(u)
    \/ \E c \in calls, o \in RouterOutcomes : generate_returned(c, o)
    \/ \E u \in Users : cmd_clear(u)
    \/ \E u \in Users : cmd_cleardata(u)
    \/ \E u \in Users : confirm_cleardata(u)
    \/ \E u \in Users : cancel_cleardata(u)

SpecWipe == InitWipe /\ [][NextWipe]_vars

----------------------------------------------------------------------------
(* Clearing the history in and out of a setup session: the users of the
   clearing specification chat, enter the setup flow again and send /clear *)

\* /start commands per run
MaxClearPrompts == 1

InitClear ==
    /\ InitWipe!1
    /\ InitWipe!2
    /\ user_conversations = EmptyDict
    /\ fsm_state = [u \in Users |-> None]
    /\ fsm_data = [u \in Users |-> EmptyDict]
    /\ session = [u \in Users |-> NoSession]
    /\ keyboards = [u \in Users |-> NoKeyboards]
    /\ calls = {}
    /\ sent = [u \in Users |-> 0]
    /\ replied = [u \in Users |-> NoReply]
    /\ routed = [u \in Users |-> << >>]
    /\ ledger = [u \in Users |-> << >>]
    /\ result = NoResult
    /\ api = NoApi
    /\ unhandled = {}
    /\ run = [u \in Users |-> NoRun]
    /\ budget = [prompts |-> MaxClearPrompts, tokens |-> 0,
                 msgs |-> [u \in Users |-> IF u = "u1" THEN MaxLiveMsgs ELSE MaxOtherMsgs],
                 inflight |-> MaxChatInflight]

NextClear ==
    \/ \E u \in Users : handle_ai_message(u)
    \/ \E c \in calls, o \in RouterOutcomes : generate_returned(c, o)
    \/ \E u \in Users : cmd_clear(u)
    \/ \E u \in Users : cmd_start(u)
    \/ \E u \in Users, p \in Providers : select_provider(u, p)

SpecClear == InitClear /\ [][NextClear]_vars

----------------------------------------------------------------------------
(* AIServiceManager.get_service called directly, with any id and model *)

\* the service_name arguments: the ids as the registry spells them, in other
\* cases, and an id it does not know
ServiceNames == Providers \cup {"ChatGPT", "CHATGPT", "Gemini", "CLAUDE", "Grok", "Custom", "mistral"}

\* the model arguments: none, the empty string, and model names
ModelArguments == {None, "", "gpt-4o", "llama-3.3-70b"}

InitRegistry ==
    /\ environ \in Environments
    /\ user_tokens = EmptyDict
    /\ user_preferences = EmptyDict
    /\ user_conversations = EmptyDict
    /\ fsm_state = [u \in Users |-> None]
    /\ fsm_data = [u \in Users |-> EmptyDict]
    /\ session = [u \in Users |-> NoSession]
    /\ keyboards = [u \in Users |-> NoKeyboards]
    /\ calls = {}
    /\ sent = [u \in Users |-> 0]
    /\ replied = [u \in Users |-> NoReply]
    /\ routed = [u \in Users |-> << >>]
    /\ ledger = [u \in Users |-> << >>]
    /\ result = NoResult
    /\ api = NoApi
    /\ unhandled = {}
    /\ run = [u \in Users |-> NoRun]
    /\ budget = [prompts |-> 0, tokens |-> 0, msgs |-> [u \in Users |-> 0], inflight |-> 0]

\* one call get_service(service_name, model=model): the arguments and the
\* service returned, NoService standing for None
get_service(service_name, model) ==
    /\ api.calls < MaxApiCalls
    /\ api' = Called("get_service", None, service_name,
                     [model |-> model, service |-> GetService(service_name, model)])
    /\ UNCHANGED <<store, beside>>

NextRegistry == \E name \in ServiceNames, m \in ModelArguments : get_service(name, m)

SpecRegistry == InitRegistry /\ [][NextRegistry]_vars

----------------------------------------------------------------------------
(* The setup dialogue on its own, with room for a restart in mid-session *)

\* commands and buttons that open a new prompt message, per run of the setup
\* specification
MaxSetupPrompts == 3

InitSetup ==
    /\ environ \in Environments
    /\ user_tokens = EmptyDict
    /\ user_preferences = EmptyDict
    /\ user_conversations = EmptyDict
    /\ fsm_state = [u \in Users |-> None]
    /\ fsm_data = [u \in Users |-> EmptyDict]
    /\ session = [u \in Users |-> NoSession]
    /\ keyboards = [u \in Users |-> NoKeyboards]
    /\ calls = {}
    /\ sent = [u \in Users |-> 0]
    /\ replied = [u \in Users |-> NoReply]
    /\ routed = [u \in Users |-> << >>]
    /\ ledger = [u \in Users |-> << >>]
    /\ result = NoResult
    /\ api = NoApi
    /\ unhandled = {}
    /\ run = [u \in Users |-> NoRun]
    /\ budget = [prompts |-> MaxSetupPrompts, tokens |-> MaxTokenEntries,
                 msgs |-> [u \in Users |-> 0], inflight |-> 0]

NextSetup ==
    \/ \E u \in Users : cmd_start(u)
    \/ \E u \in Users : setup_start(u)
    \/ \E u \in Users, p \in Providers : select_provider(u, p)
    \/ \E u \in Users, t \in TokenTexts, ok \in BOOLEAN : receive_token(u, t, ok)
    \/ \E u \in Users, p \in Providers : \E m \in PressedButtons(p) : select_model(u, p, m)
    \/ \E u \in Users : cancel_token_entry(u)
    \/ \E u \in Users : back_to_providers(u)

SpecSetup == InitSetup /\ [][NextSetup]_vars

----------------------------------------------------------------------------
(* Properties *)

\* C1: every text the router forwards to an adapter extends the user's
\* transcript by exactly two turns, the user turn and then the assistant turn
\* holding the returned reply (the 10-turn cap applied afterwards), whatever
\* the provider kind: when the call of a message that ran undisturbed returns,
\* the transcript is the one the message found plus those two turns.
C1_TwoTurnsPerMessage ==
    [][\A c \in calls, o \in RouterOutcomes :
          (generate_returned(c, o) /\ c.alone /\ c.user \in DOMAIN user_conversations)
          => Entry(user_conversations', c.user) =
                {Trim(c.hist0 \o <<UserTurn(c.n),
                                   Turn("assistant", GenerateEnd(c.svc.kind, c.n, o).value)>>)}]_vars

\* C2: once more than 10 turns have been appended through the router, the
\* stored transcript is exactly the 10 most recently appended turns, in order.
C2_LastTenKept ==
    \A u \in Users :
        (CallsOf(u) = {} /\ Len(routed[u]) > MaxHistory)
        => Entry(user_conversations, u) = {LastN(routed[u], MaxHistory)}

\* C3: in every reachable state, a state with a generate call suspended on its
\* request included, every stored transcript has at most 10 turns.
C3_AtMostTenTurns ==
    \A u \in DOMAIN user_conversations : Len(user_conversations[u]) <= MaxHistory

\* a returned value that is one of the adapters' error strings
IsErrorString(v) ==
    v.tag \in {"service_not_configured", "invalid_key", "api_error", "error", "gemini_error"}

\* neither the argument nor the environment gives a credential
MissingCredential(r) == ~Truthy(r.user_token) /\ ~Truthy(r.svc.api_key)

\* a 200 body that is not JSON or lacks what the kind reads from it; the
\* custom kind accepts any JSON body
Malformed(kind, o) ==
    /\ o.err = "none"
    /\ o.status = 200
    /\ \/ o.shape = "invalid_json"
       \/ kind \in {"chatgpt", "grok"} /\ o.shape # "choices"
       \/ kind = "claude" /\ o.shape # "content"
       \/ kind = "gemini" /\ o.shape = "other"

\* the request was made and failed: network, status or body
RequestFailed(r) ==
    /\ r.requests = 1
    /\ \/ r.outcome.err = "network"
       \/ r.outcome.err = "none" /\ r.outcome.status # 200
       \/ Malformed(r.svc.kind, r.outcome)

\* what makes a service of the kind return without a request: no credential,
\* and for the custom kind no endpoint URL instead
Unconfigured(r) ==
    IF r.svc.kind = "custom" THEN ~Truthy(r.svc.base_url) ELSE MissingCredential(r)

\* C4, as stated: for every kind generate_response never raises, and on a
\* missing credential, a non-2xx status, a network failure or a malformed
\* body it returns an error string.
C4_NeverRaises_AsStated ==
    result.called =>
        /\ ~result.raised
        /\ (MissingCredential(result) \/ RequestFailed(result)) => IsErrorString(result.value)

\* C4, amended: for every kind generate_response never raises, and it returns
\* an error string on a non-2xx status, a network failure or a malformed body,
\* on a missing credential for every kind but custom, and for custom on a
\* missing endpoint URL (custom sends its request without a credential).
C4_NeverRaises ==
    result.called =>
        /\ ~result.raised
        /\ (Unconfigured(result) \/ RequestFailed(result)) => IsErrorString(result.value)

\* C4 witness: a custom service without any credential made its request, the
\* body was not JSON, and the caller got an error string.
C4_Witness ==
    /\ result.called
    /\ result.svc.kind = "custom"
    /\ MissingCredential(result)
    /\ result.requests = 1
    /\ result.outcome.shape = "invalid_json"
    /\ ~result.raised
    /\ result.value = ErrorMsg("JSONDecodeError")

\* C5: with an environment credential for p, the call made for a user who
\* holds a stored credential for p authenticates with that stored credential;
\* the call made for a user who holds none authenticates with the environment
\* credential and never with another user's.
C5_CredentialPrecedence ==
    \A c \in calls :
        LET p == c.svc.kind
            env == GetEnv(KeyVar(p), NoneTok)
        IN  Truthy(env) =>
                IF HasToken(user_tokens, c.user, p)
                THEN c.auth = GetToken(user_tokens, c.user, p)
                ELSE /\ c.auth = env
                     /\ \A v \in Users \ {c.user} :
                            HasToken(user_tokens, v, p) => c.auth # GetToken(user_tokens, v, p)

\* C5 witness: with an environment credential set, a call of u1, who holds a
\* stored credential, and a call of u2, who holds none, are in flight for the
\* same provider, the one sent with u1's credential, the other with the
\* environment's.
C5_Witness ==
    \E c \in calls, d \in calls :
        /\ c.user = "u1" /\ d.user = "u2" /\ c.svc.kind = d.svc.kind
        /\ Truthy(GetEnv(KeyVar(c.svc.kind), NoneTok))
        /\ HasToken(user_tokens, "u1", c.svc.kind)
        /\ ~HasToken(user_tokens, "u2", c.svc.kind)
        /\ c.auth = GetToken(user_tokens, "u1", c.svc.kind)
        /\ d.auth = EnvKey

\* a step of a handler running on behalf of user u
ActsFor(u) ==
    \/ cmd_start(u)
    \/ setup_start(u)
    \/ \E p \in Providers : select_provider(u, p)
    \/ \E t \in TokenTexts, ok \in BOOLEAN : receive_token(u, t, ok)
    \/ \E p \in Providers : \E m \in PressedButtons(p) : select_model(u, p, m)
    \/ cancel_token_entry(u)
    \/ back_to_providers(u)
    \/ cmd_cleardata(u)
    \/ confirm_cleardata(u)
    \/ cancel_cleardata(u)
    \/ cmd_clear(u)
    \/ handle_ai_message(u)
    \/ \E c \in CallsOf(u), o \in RouterOutcomes : generate_returned(c, o)

\* C6: a step taken on behalf of user u (setup step, credential entry,
\* message, /clear, cleardata) leaves the stored credentials and models, the
\* preferred provider and the transcript of every other user unchanged.
C6_UserIsolation ==
    [][\A u \in Users :
          ActsFor(u) =>
              \A v \in Users \ {u} :
                  /\ Entry(user_tokens', v) = Entry(user_tokens, v)
                  /\ Entry(user_preferences', v) = Entry(user_preferences, v)
                  /\ Entry(user_conversations', v) = Entry(user_conversations, v)]_vars

\* C6 witness: u1 holds a stored credential with a model, a preferred provider
\* and a transcript of one exchange, and u2 has stored a credential of their
\* own for the same provider and sent a text of their own.
C6_Witness ==
    /\ \E p \in Providers :
          /\ HasToken(user_tokens, "u1", p)
          /\ GetModel(user_tokens, "u1", p) # None
          /\ GetPreferredProvider(user_preferences, "u1") = p
          /\ HasToken(user_tokens, "u2", p)
          /\ GetToken(user_tokens, "u2", p) # GetToken(user_tokens, "u1", p)
    /\ Entry(user_conversations, "u1") = {routed["u1"]}
    /\ Len(routed["u1"]) = 2
    /\ sent["u2"] = 1
    /\ replied["u2"].kind = "no_provider"

\* the provider has a credential in the environment
HasEnvCredential(p) == Truthy(GetEnv(KeyVar(p), NoneTok))

\* the provider is usable from the environment alone: a credential there, and
\* for the custom kind an endpoint URL instead
UsableFromEnv(p) ==
    IF p = "custom"
    THEN Truthy(GetEnv("CUSTOM_LLM_BASE_URL", DefaultBaseUrl))
    ELSE HasEnvCredential(p)

\* C7, as stated: choosing a provider in SelectingProvider records it as the
\* selected provider and moves the session to SelectingModel if the provider
\* has an environment credential or a credential stored for this user, and to
\* EnteringToken otherwise.
C7_SelectProvider_AsStated ==
    [][\A u \in Users, p \in Providers :
          (fsm_state[u] = "selecting_provider" /\ select_provider(u, p))
          => /\ Entry(fsm_data'[u], "selected_provider") = {p}
             /\ fsm_state'[u] = IF HasEnvCredential(p) \/ HasToken(user_tokens, u, p)
                                THEN "selecting_model"
                                ELSE "entering_token"]_vars

\* C7, amended: choosing a provider in SelectingProvider records it as the
\* selected provider and moves the session to SelectingModel if the provider
\* is usable from the environment alone (an environment credential; for the
\* custom kind a configured endpoint URL, with or without a credential) or a
\* credential is stored for this user, and to EnteringToken otherwise.
C7_SelectProvider ==
    [][\A u \in Users, p \in Providers :
          (fsm_state[u] = "selecting_provider" /\ select_provider(u, p))
          => /\ Entry(fsm_data'[u], "selected_provider") = {p}
             /\ fsm_state'[u] = IF UsableFromEnv(p) \/ HasToken(user_tokens, u, p)
                                THEN "selecting_model"
                                ELSE "entering_token"]_vars

\* C7 witness: with nothing in the environment, one user has chosen custom and
\* is selecting a model without any credential, and the other has chosen
\* chatgpt and is asked for a credential.
C7_Witness ==
    /\ environ = EmptyDict
    /\ \E u \in Users, v \in Users :
          /\ fsm_state[u] = "selecting_model"
          /\ SelectedProvider(u) = "custom"
          /\ ~HasToken(user_tokens, u, "custom")
          /\ fsm_state[v] = "entering_token"
          /\ SelectedProvider(v) = "chatgpt"

\* C8: in EnteringToken a received text is stored (stripped of surrounding
\* whitespace) as the user's credential for the selected provider and the
\* session moves to SelectingModel, whether or not the deletion of the message
\* succeeds.
C8_ReceiveToken ==
    [][\A u \in Users, t \in TokenTexts, ok \in BOOLEAN :
          receive_token(u, t, ok)
          => /\ SelectedProvider(u) \in Providers
             /\ GetToken(user_tokens', u, SelectedProvider(u)) = Strip(t)
             /\ fsm_state'[u] = "selecting_model"
             /\ Entry(fsm_data'[u], "selected_provider") = {SelectedProvider(u)}]_vars

\* C8 witness: a credential text was received, its message could not be
\* deleted, and the credential is stored with the session selecting a model.
C8_Witness ==
    \E u \in Users :
        /\ run[u].stage = 3
        /\ ~run[u].deleted
        /\ fsm_state[u] = "selecting_model"
        /\ GetToken(user_tokens, u, run[u].provider) = Strip(run[u].token)
        /\ run[u].token # Strip(run[u].token)

\* C9: choosing a model in SelectingModel, from the keyboard of the selected
\* provider, makes the selected provider the preferred one, makes the adapter
\* resolved for the user's next message use the chosen model, and destroys
\* the session, whether the credential is stored or from the environment.
C9_SelectModelPersists ==
    [][\A u \in Users, m \in UNION {PressedButtons(p) : p \in Providers} :
          (/\ select_model(u, SelectedProvider(u), m)
           /\ HasToken(user_tokens, u, SelectedProvider(u))
                \/ HasEnvCredential(SelectedProvider(u)))
          => /\ GetPreferredProvider(user_preferences', u) = SelectedProvider(u)
             /\ GetService(SelectedProvider(u),
                           GetModel(user_tokens', u, SelectedProvider(u))).model = m
             /\ fsm_state'[u] = None
             /\ fsm_data'[u] = EmptyDict]_vars

\* C10: a setup run (start, a provider without a credential, the credential,
\* a model) ends with no session, the provider preferred, the submitted
\* credential stored for it and the chosen model stored against it.
C10_FullSetupRun ==
    \A u \in Users :
        run[u].stage = 4
        => /\ fsm_state[u] = None
           /\ fsm_data[u] = EmptyDict
           /\ GetPreferredProvider(user_preferences, u) = run[u].provider
           /\ GetToken(user_tokens, u, run[u].provider) = Strip(run[u].token)
           /\ GetModel(user_tokens, u, run[u].provider) = run[u].model

\* C10 witness: a user has completed such a run for grok, with a credential
\* text that carried surrounding whitespace.
C10_Witness ==
    \E u \in Users :
        /\ run[u].stage = 4
        /\ run[u].provider = "grok"
        /\ run[u].model = "grok-4-fast"
        /\ run[u].token = <<" ", "k", "2", "\n">>

\* C11: a session that is destroyed by cancellation, or returned to
\* SelectingProvider by Back, applies no change: the user's stored credentials
\* and models and the preferred provider are then the same as when the session
\* was started.
C11_NoPartialChange ==
    [][\A u \in Users :
          (fsm_state[u] # None /\ (cancel_token_entry(u) \/ back_to_providers(u)))
          => /\ Entry(user_tokens', u) = session[u].tokens0
             /\ Entry(user_preferences', u) = session[u].prefs0]_vars

\* C12, second part: the provider recorded when setup completes is one chosen
\* after the provider selection was last shown.
ChosenAfterStart ==
    \A u \in Users, p \in Providers :
        \A m \in PressedButtons(p) :
            select_model(u, p, m)
            => /\ session[u].chosen # None
               /\ GetPreferredProvider(user_preferences', u) = session[u].chosen

\* C12: starting setup (/start, or the Setup button) while a session is in
\* progress puts the session in SelectingProvider, and the provider recorded
\* when setup completes is always one chosen after the most recent start.
C12_ReentrantStart ==
    [][/\ \A u \in Users :
             (fsm_state[u] # None /\ (cmd_start(u) \/ setup_start(u)))
             => fsm_state'[u] = "selecting_provider"
       /\ ChosenAfterStart]_vars


\* C13: when a user with no preferred provider sends a text message, the
\* router replies to that message with the no-provider-selected message,
\* suspends no provider call, and leaves the conversation store as it was,
\* so that no transcript entry is created for the user.
C13_NoProviderSelected ==
    [][\A u \in Users :
          (handle_ai_message(u) /\ ~TruthyId(GetPreferredProvider(user_preferences, u)))
          => /\ replied'[u] = RouterReply(sent[u] + 1, "no_provider", Text(0), None)
             /\ calls' = calls
             /\ user_conversations' = user_conversations
             /\ u \notin DOMAIN user_conversations']_vars

\* a user without a preferred provider has sent a text and has been told so,
\* and has no transcript
C13_Witness ==
    \E u \in Users :
        /\ GetPreferredProvider(user_preferences, u) = None
        /\ sent[u] = 1
        /\ replied[u] = RouterReply(1, "no_provider", Text(0), None)
        /\ u \notin DOMAIN user_conversations

\* the provider the router resolves for u is unknown to the registry, or its
\* adapter is not available with the credential stored for u
Unroutable(u) ==
    LET provider_id == GetPreferredProvider(user_preferences, u)
    IN  \/ Lower(provider_id) \notin Providers
        \/ ~IsAvailable(GetService(provider_id, GetModel(user_tokens, u, provider_id)),
                        GetToken(user_tokens, u, provider_id))

\* C14: when the preferred provider of a user is unknown to the registry, or
\* its adapter reports unavailable given the credential stored for the user,
\* the router answers the user's text with the not-configured message and
\* stops: no provider call is started and the user's transcript is unchanged.
C14_NotConfigured ==
    [][\A u \in Users :
          (/\ handle_ai_message(u)
           /\ TruthyId(GetPreferredProvider(user_preferences, u))
           /\ Unroutable(u))
          => /\ replied'[u] = RouterReply(sent[u] + 1, "not_configured", Text(0), None)
             /\ calls' = calls
             /\ Entry(user_conversations', u) = Entry(user_conversations, u)]_vars

\* one user prefers a provider the registry does not know, the other a known
\* provider without any credential, and each has been told "not configured"
C14_Witness ==
    /\ GetPreferredProvider(user_preferences, "u1") \notin Providers
    /\ GetPreferredProvider(user_preferences, "u2") \in Providers \ {"custom"}
    /\ GetToken(user_tokens, "u2", GetPreferredProvider(user_preferences, "u2")) = NoneTok
    /\ \A u \in Users :
          /\ sent[u] = 1
          /\ replied[u] = RouterReply(1, "not_configured", Text(0), None)
          /\ u \notin DOMAIN user_conversations
    /\ calls = {}

\* C15: when generate_response returns an error string, for example after an
\* HTTP 401, the router treats it like any reply: the transcript of the user
\* grows by the user's text and the error string as its two newest turns
\* (trimmed to the window like any other), and the error string is what the
\* user is sent in answer to that text.
C15_ErrorStringRecorded ==
    [][\A c \in calls : \A o \in RouterOutcomes :
          LET res == GenerateEnd(c.svc.kind, c.n, o)
          IN  (/\ generate_returned(c, o)
               /\ ~res.raised
               /\ IsErrorString(res.value)
               /\ c.user \in DOMAIN user_conversations)
              => /\ c.user \in DOMAIN user_conversations'
                 /\ user_conversations'[c.user] =
                        Trim(user_conversations[c.user]
                             \o <<UserTurn(c.n), Turn("assistant", res.value)>>)
                 /\ replied'[c.user] = RouterReply(c.n, "answer", res.value, c.svc.model)]_vars

\* a provider answered 401: the user has been sent the credential-correction
\* message, and the transcript ends with the user's text and that message
C15_Witness ==
    \E u \in DOMAIN user_conversations :
        LET turns == user_conversations[u]
        IN  /\ replied[u].kind = "answer"
            /\ replied[u].content = InvalidKeyMsg
            /\ Len(turns) >= 2
            /\ turns[Len(turns) - 1] = UserTurn(replied[u].n)
            /\ turns[Len(turns)] = Turn("assistant", InvalidKeyMsg)

\* the provider kinds whose adapter sends an HTTP request itself (the Gemini
\* adapter calls the SDK and reads no HTTP status)
HttpKinds == Providers \ {"gemini"}

\* C16: for every HTTP-based provider kind, when the provider answers with a
\* non-2xx status, generate_response returns the string telling the user to
\* correct the credential if the status is 401, and otherwise an error string
\* that embeds the numeric status code.
C16_StatusErrors ==
    (/\ result.called
     /\ result.svc.kind \in HttpKinds
     /\ result.requests = 1
     /\ result.outcome.err = "none"
     /\ result.outcome.status # 200)
    => /\ ~result.raised
       /\ IF result.outcome.status = 401
          THEN result.value = InvalidKeyMsg
          ELSE /\ result.value.tag = "api_error"
               /\ result.value.code = result.outcome.status

\* neither the user_token argument nor the key the instance took from the
\* environment holds a credential
NoCredentialAtAll(r) ==
    /\ r.user_token \in {NoneTok, EmptyStr}
    /\ r.svc.api_key \in {NoneTok, EmptyStr}

\* generate_response returned its not-configured string without a request
ReturnedUnconfigured(r) ==
    /\ ~r.raised
    /\ r.value = NotConfiguredMsg(r.svc.kind)
    /\ IsErrorString(r.value)
    /\ r.requests = 0

\* C17, as stated: for every provider kind, when neither a user credential
\* nor an instance or environment credential exists, generate_response
\* returns a user-facing error string and performs no network call.
C17_NoCredential_AsStated ==
    (result.called /\ NoCredentialAtAll(result)) => ReturnedUnconfigured(result)

\* C17, amended: for every provider kind but custom, when neither a user
\* credential nor an instance or environment credential exists,
\* generate_response returns a user-facing error string and performs no
\* network call; the custom kind does so when its endpoint URL is empty, and
\* with an endpoint URL and no credential it sends its request without an
\* Authorization header.
C17_NoCredential ==
    result.called =>
        /\ (result.svc.kind # "custom" /\ NoCredentialAtAll(result))
              => ReturnedUnconfigured(result)
        /\ (result.svc.kind = "custom" /\ result.svc.base_url \in {NoneTok, EmptyStr})
              => ReturnedUnconfigured(result)
        /\ (result.svc.kind = "custom" /\ result.svc.base_url \notin {NoneTok, EmptyStr}
                /\ NoCredentialAtAll(result))
              => (result.requests = 1 /\ result.auth = NoneTok)

\* a ChatGPT service without an environment key was called with the empty
\* string as the user credential and returned its not-configured string
\* without a request
C17_Witness ==
    /\ result.called
    /\ result.svc.kind = "chatgpt"
    /\ result.svc.api_key = NoneTok
    /\ result.user_token = EmptyStr
    /\ ReturnedUnconfigured(result)

\* the transcript of the user of call c when the message of c is handled with
\* nothing else going on: what the message found, as generate_response left
\* it, then the two appends and the trim
HandledAlone(c, o) ==
    Trim(HistoryAfterCall(c.svc.kind, c.hist0, c.n)
         \o <<UserTurn(c.n), Turn("assistant", GenerateEnd(c.svc.kind, c.n, o).value)>>)

\* C18: when the provider call of a message has overlapped with a call made
\* for a different user, then however the two were interleaved the handling of
\* the message leaves its user with the transcript that handling the message
\* alone gives, and with the stored credentials and preference unchanged.
C18_ConcurrentUsers ==
    [][\A c \in calls : \A o \in RouterOutcomes :
          (generate_returned(c, o) /\ c.overlap /\ c.alone)
          => /\ Entry(user_conversations', c.user) = {HandledAlone(c, o)}
             /\ user_tokens' = user_tokens
             /\ user_preferences' = user_preferences]_vars

\* a call of u1 for a second or later message has returned and been recorded
\* while the call of u2 that overlapped with it is still in flight
C18_Witness ==
    /\ \E d \in calls : d.user = "u2" /\ d.overlap /\ d.alone
    /\ CallsOf("u1") = {}
    /\ sent["u1"] >= 2
    /\ replied["u1"].n = sent["u1"]
    /\ replied["u1"].kind = "answer"
    /\ "u1" \in DOMAIN user_conversations
    /\ Len(user_conversations["u1"]) >= 4

\* the n-th chat text of u has reached the router
Reached(u, n) == Len(ledger[u]) >= n

\* at most one provider call has been made and at most one reply been sent
\* for each chat text that has reached the router
AtMostOnce ==
    \A u \in Users : \A n \in 1..Len(ledger[u]) :
        /\ ledger[u][n].issued <= 1
        /\ ledger[u][n].replies <= 1

\* C19: for every chat text that reaches the router at most one provider call
\* is made, whatever the call gives (no retry), never more than one reply is
\* sent for it, and, every call in flight coming to an end by returning or
\* timing out, the one reply is eventually sent.
C19_OneCallOneReply ==
    /\ []AtMostOnce
    /\ \A u \in Users : \A n \in 1..MaxLiveMsgs :
          Reached(u, n) ~> (Reached(u, n) /\ ledger[u][n].replies = 1)

\* the call made for a chat text ended in a network failure or timeout: one
\* call was made for the text, and the user got the one reply, the error text
C19_Witness ==
    \E u \in Users :
        /\ Reached(u, 1)
        /\ sent[u] = 1
        /\ ledger[u][1] = [issued |-> 1, replies |-> 1]
        /\ CallsOf(u) = {}
        /\ replied[u] = RouterReply(1, "answer", ErrorMsg("ConnectError"),
                                    replied[u].model)

\* C20: when the generate_response call of a message raises instead of
\* returning, the router ends the handling of the message without an
\* exception of its own: it sends one reply for the message, holding the text
\* of the error, and appends no turn to the transcript of the user.
C20_RaiseHandled ==
    [][\A c \in calls : \A exc \in RaisedErrors :
          generate_raised(c, exc)
          => /\ replied'[c.user] = RouterReply(c.n, "error", ErrorMsg(exc), None)
             /\ ledger'[c.user][c.n] = [issued |-> 1, replies |-> 1]
             /\ c \notin calls'
             /\ user_conversations' = user_conversations
             /\ routed' = routed]_vars

\* the call of the second text of a user raised: the user has the error
\* reply for it, and the transcript is still the first exchange
C20_Witness ==
    \E u \in DOMAIN user_conversations :
        /\ sent[u] = 2
        /\ CallsOf(u) = {}
        /\ replied[u] = RouterReply(2, "error", ErrorMsg("API Error"), None)
        /\ ledger[u][2] = [issued |-> 1, replies |-> 1]
        /\ routed[u] = <<UserTurn(1), Turn("assistant", Reply(1))>>
        /\ user_conversations[u] = routed[u]

\* (u, p) has an entry in the credential store
HasEntry(tokens, u, p) == u \in DOMAIN tokens /\ p \in DOMAIN tokens[u]

\* C21: for all users u, providers p and credentials X, get_token(u, p) right
\* after set_token(u, p, X) gives X; remove_token(u, p) returns true exactly
\* when an entry existed for (u, p), and has_token(u, p) is false afterwards.
C21_CredentialRoundTrip ==
    [][/\ \A u \in Users, p \in StoreProviders, t \in StoreTokenArguments :
          \A m \in {None, "gpt-4o"} :
             set_token(u, p, t, m) => GetToken(user_tokens', u, p) = t
       /\ \A u \in Users, p \in StoreProviders :
             /\ (get_token(u, p) /\ api.op = "set_token" /\ api.user = u /\ api.provider = p)
                   => api'.ret = user_tokens[u][p].token
             /\ remove_token(u, p)
                   => /\ api'.ret = HasEntry(user_tokens, u, p)
                      /\ ~HasToken(user_tokens', u, p)
                      /\ ~HasEntry(user_tokens', u, p)
             /\ (has_token(u, p) /\ api.op = "remove_token" /\ api.user = u
                     /\ api.provider = p)
                   => api'.ret = FALSE]_vars

\* the empty string was stored for (u, p) and the next call, get_token(u, p),
\* returned it
C21_Witness ==
    /\ api.op = "get_token"
    /\ api.prev = [op |-> "set_token", user |-> api.user, provider |-> api.provider]
    /\ api.ret = EmptyStr

\* C22: set_model(u, p, m) changes nothing when the credential store has no
\* entry for (u, p): no entry is created for the user or for the provider and
\* both dicts stay as they were; when the entry exists, only the model of
\* that entry changes.
C22_SetModelFrame ==
    [][\A u \in Users, p \in StoreProviders, m \in StoreModels :
          set_model(u, p, m)
          => /\ user_preferences' = user_preferences
             /\ IF HasEntry(user_tokens, u, p)
                THEN /\ DOMAIN user_tokens' = DOMAIN user_tokens
                     /\ \A v \in DOMAIN user_tokens :
                           /\ DOMAIN user_tokens'[v] = DOMAIN user_tokens[v]
                           /\ \A q \in DOMAIN user_tokens[v] :
                                 /\ user_tokens'[v][q].token = user_tokens[v][q].token
                                 /\ user_tokens'[v][q].model =
                                        IF v = u /\ q = p THEN m ELSE user_tokens[v][q].model
                ELSE user_tokens' = user_tokens]_vars

\* set_model was called for a user who holds a credential for another
\* provider only: neither the provider nor a model was added
C22_Witness ==
    /\ api.op = "set_model"
    /\ api.user \in DOMAIN user_tokens
    /\ user_tokens[api.user] # EmptyDict
    /\ api.provider \notin DOMAIN user_tokens[api.user]

\* the snapshot of a user with no preferred provider and no configured
\* provider
EmptySnapshot == [preferred_provider |-> None, configured_providers |-> {}]

\* C23: from any contents of the store clear_user_data(u) returns normally
\* and leaves u with the empty snapshot, and a second call right after the
\* first returns normally too and changes nothing more.
C23_ClearIdempotent ==
    [][\A u \in Users :
          clear_user_data(u)
          => /\ api'.ret = None
             /\ GetUserConfig(user_tokens', user_preferences', u) = EmptySnapshot
             /\ u \notin DOMAIN user_tokens' \cup DOMAIN user_preferences'
             /\ (api.op = "clear_user_data" /\ api.user = u)
                   => (user_tokens' = user_tokens /\ user_preferences' = user_preferences)]_vars

\* clear_user_data has been called twice in a row for a user, who has the
\* empty snapshot, while the other user still holds data
C23_Witness ==
    /\ api.op = "clear_user_data"
    /\ api.prev.op = "clear_user_data"
    /\ api.prev.user = api.user
    /\ GetUserConfig(user_tokens, user_preferences, api.user) = EmptySnapshot
    /\ \E v \in Users \ {api.user} :
          GetUserConfig(user_tokens, user_preferences, v) # EmptySnapshot

\* u holds nothing: no stored credential or model, no preferred provider, no
\* transcript
HoldsNothing(tokens, prefs, conversations, u) ==
    /\ u \notin DOMAIN tokens
    /\ \A p \in Providers : ~HasToken(tokens, u, p) /\ GetModel(tokens, u, p) = None
    /\ GetPreferredProvider(prefs, u) = None
    /\ u \notin DOMAIN conversations

\* C24: confirming cleardata removes every stored credential and model, the
\* preferred provider and the transcript of the user who confirms; declining
\* it changes none of them, for any user.
C24_ClearData ==
    [][\A u \in Users :
          /\ confirm_cleardata(u)
                => HoldsNothing(user_tokens', user_preferences', user_conversations', u)
          /\ cancel_cleardata(u)
                => /\ user_tokens' = user_tokens
                   /\ user_preferences' = user_preferences
                   /\ user_conversations' = user_conversations]_vars

\* u1 has chatted, confirmed one /cleardata prompt, and holds nothing, while
\* u2, who declined the other prompt, holds a credential, a preferred provider
\* and a transcript
C24_Witness ==
    /\ budget.prompts = 0
    /\ \A u \in Users : keyboards[u].cleardata = 0 /\ sent[u] >= 1
    /\ replied["u1"].kind = "answer"
    /\ HoldsNothing(user_tokens, user_preferences, user_conversations, "u1")
    /\ "u2" \in DOMAIN user_tokens
    /\ GetPreferredProvider(user_preferences, "u2") # None
    /\ "u2" \in DOMAIN user_conversations
    /\ user_conversations["u2"] # << >>

\* the call handle_ai_message has just started for the n-th text of u
Started(u, n) == {c \in calls' : c.user = u /\ c.n = n}

\* C25: /clear removes the transcript of the user entirely, so that the next
\* text of the user goes to the provider with an empty history, and leaves
\* the stored credentials and models, the preferred providers and the setup
\* session as they were; it does so also when the user has no transcript.
C25_ClearHistory ==
    [][\A u \in Users :
          /\ cmd_clear(u)
                => /\ u \notin DOMAIN user_conversations'
                   /\ user_tokens' = user_tokens
                   /\ user_preferences' = user_preferences
                   /\ fsm_state' = fsm_state
                   /\ fsm_data' = fsm_data
          /\ (handle_ai_message(u) /\ u \notin DOMAIN user_conversations)
                => \A c \in Started(u, sent[u] + 1) :
                      /\ c.hist0 = << >>
                      /\ c.payload = <<UserTurn(c.n)>>]_vars

\* the first text of a user was answered and recorded, the user, in the
\* middle of a setup session, cleared the history, and the call for the second
\* text is in flight with that text alone as its history
C25_Witness ==
    \E c \in calls :
        /\ c.n = 2
        /\ replied[c.user] = RouterReply(1, "answer", Reply(1), replied[c.user].model)
        /\ fsm_state[c.user] = "selecting_provider"
        /\ c.hist0 = << >>
        /\ c.payload = <<UserTurn(2)>>

\* the provider kind each service name stands for when case is disregarded
KindNamed ==
    [name \in ServiceNames \ {"mistral"} |->
        CASE name \in {"chatgpt", "ChatGPT", "CHATGPT"} -> "chatgpt"
          [] name \in {"gemini", "Gemini"} -> "gemini"
          [] name \in {"claude", "CLAUDE"} -> "claude"
          [] name \in {"grok", "Grok"} -> "grok"
          [] name \in {"custom", "Custom"} -> "custom"]

\* C26: get_service(provider_id, model) looks the provider kind up without
\* regard to case; for a known id it returns an adapter of that kind, built
\* at the call from the environment, whose model is the model supplied, or
\* the default model of the kind when none (None or the empty string) is
\* supplied; for an unknown id it returns None.
C26_Resolve ==
    api.op = "get_service" =>
        LET name == api.provider
            model == api.ret.model
            service == api.ret.service
        IN  IF name \in DOMAIN KindNamed
            THEN /\ service.kind = KindNamed[name]
                 /\ service.model =
                        IF model \in {None, ""} THEN DefaultModel(KindNamed[name]) ELSE model
                 /\ service.api_key = GetEnv(KeyVar(KindNamed[name]), NoneTok)
            ELSE service = NoService

\* the id was given in capitals with a model, and the adapter of the kind with
\* that model came back; the call before was for an id the registry does not
\* know
C26_Witness ==
    /\ api.op = "get_service"
    /\ api.provider = "CHATGPT"
    /\ api.ret.model = "gpt-4o"
    /\ api.ret.service.kind = "chatgpt"
    /\ api.ret.service.model = "gpt-4o"
    /\ api.prev.provider = "mistral"

\* u holds at least one stored credential
HoldsCredential(u) == u \in DOMAIN user_tokens /\ DOMAIN user_tokens[u] # {}

\* C27: /start shows the provider selection and puts the session of the user
\* in SelectingProvider when the user holds at least one stored credential or
\* at least one provider is available from the environment; otherwise it only
\* shows the welcome message with the setup button and leaves the session as
\* it was.  Either way the store is unchanged.
C27_Start ==
    [][\A u \in Users :
          cmd_start(u)
          => /\ IF HoldsCredential(u) \/ (\E p \in Providers : UsableFromEnv(p))
                THEN /\ fsm_state'[u] = "selecting_provider"
                     /\ keyboards'[u].providers = keyboards[u].providers + 1
                     /\ keyboards'[u].setup = keyboards[u].setup
                ELSE /\ fsm_state'[u] = fsm_state[u]
                     /\ keyboards'[u].setup = keyboards[u].setup + 1
                     /\ keyboards'[u].providers = keyboards[u].providers
             /\ fsm_data' = fsm_data
             /\ \A v \in Users \ {u} : fsm_state'[v] = fsm_state[v]
             /\ user_tokens' = user_tokens
             /\ user_preferences' = user_preferences]_vars

\* with no provider available from the environment, a user got the welcome
\* on a first /start, went through the setup button to store a credential,
\* and got the provider selection on the next /start
C27_Witness ==
    \E u \in Users :
        /\ ~(\E p \in Providers : UsableFromEnv(p))
        /\ HoldsCredential(u)
        /\ budget.prompts = 0
        /\ keyboards[u].providers >= 1
        /\ fsm_state[u] = "selecting_provider"
        /\ session[u].tokens0 # {}

\* C28: for every provider kind generate_response only reads the history it
\* is given: the transcript passed to it is the same sequence when the call
\* has returned as it was before the call.
C28_HistoryReadOnly ==
    [][\A kind \in Providers, t \in TokenArguments, o \in Outcomes :
          direct_generate(kind, t, o) => user_conversations' = user_conversations]_vars

----------------------------------------------------------------------------
(* The setup dialogue when a provider button may carry any id *)

NextSelect ==
    \/ \E u \in Users : cmd_start(u)
    \/ \E u \in Users : setup_start(u)
    \/ \E u \in Users, provider_id \in PreferredIds : select_provider(u, provider_id)
    \/ \E u \in Users, t \in TokenTexts, ok \in BOOLEAN : receive_token(u, t, ok)
    \/ \E u \in Users, p \in Providers : \E m \in PressedButtons(p) : select_model(u, p, m)
    \/ \E u \in Users : cancel_token_entry(u)
    \/ \E u \in Users : back_to_providers(u)

SpecSelect == InitSetup /\ [][NextSelect]_vars

\* the provider ids the registry does not know
UnknownIds == {id \in PreferredIds : GetService(id, None) = NoService}

\* C29: a provider-selection event that carries an id the registry does not
\* know is handled as provider-not-found: the handler lets no exception
\* through, and the session does not move to selecting_model or to
\* entering_token for that id
C29_UnknownProviderHandled ==
    [][\A u \in Users, provider_id \in UnknownIds :
          select_provider(u, provider_id) =>
              /\ unhandled' = unhandled
              /\ fsm_state'[u] \notin {"selecting_model", "entering_token"}]_vars

\* the part of C29 that the handler keeps: the session stays where it was
C29_SessionStays ==
    [][\A u \in Users, provider_id \in UnknownIds :
          select_provider(u, provider_id) =>
              /\ fsm_state'[u] = fsm_state[u]
              /\ fsm_state'[u] \notin {"selecting_model", "entering_token"}]_vars

\* an unknown id has been selected and the handler raised
C29_Raised ==
    \E u \in Users :
        /\ Unhandled(u, "select_provider", "AttributeError") \in unhandled
        /\ fsm_data[u] # EmptyDict
        /\ fsm_data[u].selected_provider \in UnknownIds

\* C30: when /clear or a confirmed cleardata of u has removed u's transcript
\* while a generate call of u was in flight, the message handler still ends
\* normally at the return of the call: the generated reply is delivered, not
\* an error text, and the transcript of u then holds exactly the user turn
\* and the assistant turn of that message
C30_ClearInFlight ==
    [][\A c \in calls, o \in RouterOutcomes :
          (/\ generate_returned(c, o)
           /\ ~c.alone
           /\ c.user \notin DOMAIN user_conversations
           /\ ~GenerateEnd(c.svc.kind, c.n, o).raised) =>
              LET value == GenerateEnd(c.svc.kind, c.n, o).value
              IN  /\ replied'[c.user] = RouterReply(c.n, "answer", value, c.svc.model)
                  /\ c.user \in DOMAIN user_conversations'
                  /\ user_conversations'[c.user] =
                         <<UserTurn(c.n), Turn("assistant", value)>>]_vars

\* what the handler does in that case: the KeyError of the append is caught,
\* its text is the reply and the transcript stays absent
C30_ErrorInstead ==
    [][\A c \in calls, o \in RouterOutcomes :
          (/\ generate_returned(c, o)
           /\ c.user \notin DOMAIN user_conversations
           /\ ~GenerateEnd(c.svc.kind, c.n, o).raised) =>
              /\ replied'[c.user] = RouterReply(c.n, "error", ErrorMsg("KeyError"), None)
              /\ c.user \notin DOMAIN user_conversations']_vars

\* a call of u has returned after u's transcript was removed
C30_Returned ==
    \E u \in Users :
        /\ replied[u] = RouterReply(replied[u].n, "error", ErrorMsg("KeyError"), None)
        /\ u \notin DOMAIN user_conversations
        /\ ledger[u][replied[u].n].replies = 1

----------------------------------------------------------------------------
(* The message router with texts of one user handled concurrently: a second
   text is taken up while the provider call of the first is pending *)

\* chat texts the user sends in a run of this specification
MaxPairMsgs == 6

InitPair ==
    /\ InitLive!1
    /\ InitLive!2
    /\ user_conversations = EmptyDict
    /\ fsm_state = [u \in Users |-> None]
    /\ fsm_data = [u \in Users |-> EmptyDict]
    /\ session = [u \in Users |-> NoSession]
    /\ keyboards = [u \in Users |-> NoKeyboards]
    /\ calls = {}
    /\ sent = [u \in Users |-> 0]
    /\ replied = [u \in Users |-> NoReply]
    /\ routed = [u \in Users |-> << >>]
    /\ ledger = [u \in Users |-> << >>]
    /\ result = NoResult
    /\ api = NoApi
    /\ unhandled = {}
    /\ run = [u \in Users |-> NoRun]
    /\ budget = [prompts |-> 0, tokens |-> 0,
                 msgs |-> [u \in Users |-> IF u = "u1" THEN MaxPairMsgs ELSE 0],
                 inflight |-> MaxInflight]

NextPair ==
    \/ \E u \in Users : handle_ai_message(u)
    \/ \E c \in calls, o \in RouterOutcomes : generate_returned(c, o)

SpecPair == InitPair /\ [][NextPair]_vars

\* C31: when two texts of one user are in flight together, no turn is lost
\* or duplicated under any interleaving: once both handlers have ended, the
\* transcript holds, up to the cap of ten turns, the user turn of each text
\* followed at once by the assistant turn generated for it
C31_ConcurrentTurns ==
    [][\A c \in calls, o \in RouterOutcomes :
          (/\ generate_returned(c, o)
           /\ ~c.alone
           /\ CallsOf(c.user) = {c}) =>
              /\ c.user \in DOMAIN user_conversations'
              /\ user_conversations'[c.user] = Trim(routed'[c.user])]_vars

\* the same for the adapters that do not touch the list they are passed
\* (Claude and Gemini)
C31_ReadOnlyKinds ==
    [][\A c \in calls, o \in RouterOutcomes :
          (/\ generate_returned(c, o)
           /\ ~c.alone
           /\ CallsOf(c.user) = {c}
           /\ c.svc.kind \notin AliasingKinds) =>
              /\ c.user \in DOMAIN user_conversations'
              /\ user_conversations'[c.user] = Trim(routed'[c.user])]_vars

\* the roles of a transcript alternate, from a user turn to an assistant turn
Alternates(turns) ==
    /\ Len(turns) % 2 = 0
    /\ \A i \in 1..Len(turns) :
          turns[i].role = IF i % 2 = 1 THEN "user" ELSE "assistant"

\* C32: in every state in which no generate call of a user is in flight, the
\* stored transcript of the user has even length and its roles alternate
\* strictly, from a user turn first to an assistant turn last
C32_Alternation ==
    \A u \in DOMAIN user_conversations :
        CallsOf(u) = {} => Alternates(user_conversations[u])

\* the same while the adapters in use do not touch the list they are passed
C32_ReadOnlyKinds ==
    \A u \in DOMAIN user_conversations :
        (CallsOf(u) = {} /\ user_preferences[u] \notin AliasingKinds) =>
            Alternates(user_conversations[u])

\* the router's check passes for the provider u prefers: a text of u is not
\* answered with the not-configured message
Usable(tokens, prefs, u) ==
    LET provider_id == GetPreferredProvider(prefs, u)
    IN  /\ HasProvider(provider_id)
        /\ ~NotConfigured(GetService(provider_id, GetModel(tokens, u, provider_id)),
                          GetToken(tokens, u, provider_id))

\* C33: whenever a setup session completes with the choice of a model, the
\* provider recorded as preferred is usable by the user at that moment, so
\* that the next text of the user is not answered with the not-configured
\* message, whatever setup steps, commands and cleardata confirmations came
\* before
C33_CompletedUsable ==
    [][\A u \in Users, p \in Providers : \A m \in ModelButtons(p) :
          select_model(u, p, m) => Usable(user_tokens', user_preferences', u)]_vars

\* the same for the providers whose availability is a credential (all but
\* the custom kind, which asks for an endpoint URL)
C33_KeyedProviders ==
    [][\A u \in Users, p \in Providers : \A m \in ModelButtons(p) :
          (select_model(u, p, m) /\ SelectedProvider(u) # "custom") =>
              Usable(user_tokens', user_preferences', u)]_vars

\* C34: in every reachable state a model stored for a user and a provider
\* is in the static model catalog of that provider; a model offered by an
\* earlier model keyboard of another provider is never stored against the
\* provider now selected
C34_ModelInCatalog ==
    \A u \in DOMAIN user_tokens : \A p \in DOMAIN user_tokens[u] :
        user_tokens[u][p].model # None => user_tokens[u][p].model \in ModelButtons(p)

\* the same step by step: a model button only stores its model when it
\* belongs to the keyboard of the provider selected
C34_OwnKeyboard ==
    [][\A u \in Users, shown \in Providers : \A model \in ModelButtons(shown) :
          (select_model(u, shown, model) /\ shown = SelectedProvider(u)) =>
              \A p \in Providers :
                  GetModel(user_tokens', u, p) # GetModel(user_tokens, u, p) =>
                      GetModel(user_tokens', u, p) \in ModelButtons(p)]_vars

\* the numbers of the texts of u that are with a provider adapter
Forwarded(cs, u) == {c.n : c \in {d \in cs : d.user = u}}

\* the transcript of u, or nothing
TranscriptOf(conversations, u) ==
    IF u \in DOMAIN conversations THEN <<conversations[u]>> ELSE << >>

\* C35: while the setup session of a user is in EnteringToken, no text of
\* the user reaches the message router, is forwarded to a provider adapter or
\* is appended to the transcript: a text other than /start is consumed as the
\* credential of the selected provider.  The transcript only changes by the
\* return of a call that was in flight before, or by a cleardata button.
C35_TextsAreCredentials ==
    [][\A u \in Users :
          fsm_state[u] = "entering_token" =>
              /\ sent'[u] = sent[u]
              /\ Len(ledger'[u]) = Len(ledger[u])
              /\ Forwarded(calls', u) \subseteq Forwarded(calls, u)
              /\ \/ TranscriptOf(user_conversations', u) = TranscriptOf(user_conversations, u)
                 \/ \E c \in CallsOf(u), o \in RouterOutcomes : generate_returned(c, o)
                 \/ confirm_cleardata(u)
              /\ \A text \in TokenTexts, delete_ok \in BOOLEAN :
                    receive_token(u, text, delete_ok) =>
                        /\ GetToken(user_tokens', u, SelectedProvider(u)) = Strip(text)
                        /\ fsm_state'[u] = "selecting_model"]_vars

\* a user who can chat and has chatted has sent a text while in
\* EnteringToken for a further provider, and it became the credential
C35_Witness ==
    \E u \in Users :
        /\ sent[u] > 0
        /\ Usable(user_tokens, user_preferences, u)
        /\ fsm_state[u] = "selecting_model"
        /\ run[u].stage = 3
        /\ run[u].provider # GetPreferredProvider(user_preferences, u)
        /\ GetToken(user_tokens, u, run[u].provider) = Strip(run[u].token)

====
